---- MODULE Spec2Model ----
(***************************************************************************)
(* A model of the wsjson session (WsJsonClient) and its service registry.  *)
(*                                                                         *)
(* Go pointers and interface values that may be nil are modelled as        *)
(* sequences of length 0 (nil) or 1 (the value).  Strings that the code    *)
(* splits are sequences of one-character strings.  JSON values are         *)
(* records [t, e]: t is the kind of the value, e the kinds of the elements *)
(* of an array.  A JSON number id is counted in halves (h = 2 * id), so    *)
(* that 1.5 is representable and int() has something to truncate.          *)
(***************************************************************************)
EXTENDS Integers, Sequences, FiniteSets, Bags, TLC

\* ------------------------------------------------------------------ bounds
\* Number of inbound messages the read loop reads in one session.
MaxMsgs == 2
\* Number of local CallMethod / SendEvent invocations in one session.
MaxCalls == 2
\* Number of service instances handed to newWsJsonClient.
MaxServices == 2
\* Number of free places of the output queue below which a slow writer lets
\* the queue stand.
MaxTaken == 1

\* ------------------------------------------------------ program constants
JSONRPCVersion == "2.0"
ErrorParse == -32700
ErrorInvalidRequest == -32600
ErrorMethodNotFound == -32601
ErrorInvalidParams == -32602
ErrorInternalError == -32603
\* Capacity of the output channel.
OutputCap == 10
\* First value of the id sequence.
IdSeqFirst == 1

\* ------------------------------------------------------------ JSON values
JAbsent == [t |-> "absent", e |-> <<>>]
JNull == [t |-> "null", e |-> <<>>]
JInt == [t |-> "int", e |-> <<>>]
JStr == [t |-> "str", e |-> <<>>]
JObj == [t |-> "obj", e |-> <<>>]
JObjBad == [t |-> "objbad", e |-> <<>>]
JArr(elems) == [t |-> "arr", e |-> elems]

\* json.RawMessage: nil when the key is absent, the raw bytes otherwise
\* (the bytes "null" included).
RawMessage(j) == IF j.t = "absent" THEN <<>> ELSE <<j>>

\* json.Unmarshal of one JSON value into a fresh value of a Go type:
\* TRUE when it succeeds.  null decodes into every type (it leaves the
\* zero value); a pointer decodes as its pointed-to type.
RECURSIVE UnmarshalOK(_, _)
UnmarshalOK(kind, type) ==
    IF kind = "null" THEN TRUE
    ELSE CASE type = "string" -> kind = "str"
           [] type = "int" -> kind = "int"
           [] type = "float64" -> kind \in {"int", "float"}
           [] type = "bool" -> kind = "bool"
           [] type = "struct" -> kind = "obj"
           [] type = "[]string" -> kind = "arr"
           [] type = "*struct" -> UnmarshalOK(kind, "struct")
           [] type = "*int" -> UnmarshalOK(kind, "int")
           [] OTHER -> FALSE

\* ------------------------------------------------------- frames and errors
\* Error{Code, Message, Data}; typed tells a *Error from any other error
\* value (errors.New), whose code is unused.
NewErrorWithData(code, message, data) ==
    [typed |-> TRUE, code |-> code, message |-> message, data |-> data]

\* fmt.Sprintf(format) without operands: a text without a percent sign is
\* left as it is; in "100% wrong" the percent sign, the space flag and the
\* letter w are read as a verb that has no operand.
Sprintf(format) ==
    IF format = "100% wrong" THEN "100%!w(MISSING)rong" ELSE format

\* NewError(code, message, a...) with the operands left out of the message.
NewError(code, message) == NewErrorWithData(code, Sprintf(message), "nil")

\* errors.New(text), fmt.Errorf(text)
PlainError(text) == [typed |-> FALSE, code |-> 0, message |-> text, data |-> "nil"]

NilId == [k |-> "nil", h |-> 0]

NewErrorResponse(error) ==
    [Version |-> JSONRPCVersion, Result |-> <<>>, Err |-> <<error>>, Id |-> NilId]

makeError(req, code, message) ==
    [Version |-> JSONRPCVersion, Result |-> <<>>,
     Err |-> <<NewError(code, message)>>, Id |-> req.Id]

\* json.NewDecoder(reader).Decode(&request).  A wire message w has
\*   syn:     "ok" for a JSON object whose known keys have the right JSON
\*            type, "witherror" for such an object that has an error
\*            member besides (Request has no field for it, so the decoder
\*            skips it), "jsonnull" for the JSON text null, and "garbage",
\*            "nonobject", "badfield" for bytes that are not JSON, a JSON
\*            value that is no object, and an object one of whose known
\*            keys has the wrong type;
\*   jsonrpc, method: the strings ("" when the key is absent);
\*   params, result: JSON values;  id: [k, h] with k in absent, null, num,
\*            str;  re: the local call the peer answers with it (0: none),
\*            which is not on the wire.
\* The id lands in an interface{}: nil for absent and null, float64 for a
\* number, string for a string.
DecodeId(id) ==
    CASE id.k = "num" -> [k |-> "float64", h |-> id.h]
      [] id.k = "str" -> [k |-> "string", h |-> 0]
      [] OTHER -> NilId

ZeroRequest ==
    [Version |-> "", Method |-> <<>>, Params |-> <<>>, Result |-> <<>>, Id |-> NilId]

\* A decoder that skips a key whose value has the wrong type.
Decode_Lenient(w) ==
    CASE w.syn \in {"garbage", "nonobject"} ->
            [err |-> TRUE, request |-> ZeroRequest]
      [] w.syn \in {"jsonnull", "badfield"} -> [err |-> FALSE, request |-> ZeroRequest]
      [] OTHER ->
            [err |-> FALSE,
             request |-> [Version |-> w.jsonrpc, Method |-> w.method,
                          Params |-> RawMessage(w.params),
                          Result |-> RawMessage(w.result),
                          Id |-> DecodeId(w.id)]]

Decode(w) ==
    CASE w.syn \in {"garbage", "nonobject", "badfield"} ->
            [err |-> TRUE, request |-> ZeroRequest]
      [] w.syn = "jsonnull" -> [err |-> FALSE, request |-> ZeroRequest]
      [] OTHER ->
            [err |-> FALSE,
             request |-> [Version |-> w.jsonrpc, Method |-> w.method,
                          Params |-> RawMessage(w.params),
                          Result |-> RawMessage(w.result),
                          Id |-> DecodeId(w.id)]]

\* ---------------------------------------------------------------- registry
\* strings.Split(s, sep) for a one-character separator.
RECURSIVE Split(_, _)
Split(s, sep) ==
    IF \A i \in 1..Len(s) : s[i] # sep THEN <<s>>
    ELSE LET i == CHOOSE k \in 1..Len(s) :
                      s[k] = sep /\ \A j \in 1..(k - 1) : s[j] # sep
         IN <<SubSeq(s, 1, i - 1)>> \o Split(SubSeq(s, i + 1, Len(s)), sep)

\* serviceMethod: the argument types, isEvent, and the kind of the first
\* output ("value", "ptr", "iface"; "none" for an event).
ServiceMethod(argTypes, isEvent, returnKind) ==
    [argTypes |-> argTypes, isEvent |-> isEvent, returnKind |-> returnKind]

\* The registry of a session: service S exposes
\*   E  func(string) (string, error)          L  func() (int, error)
\*   V  func(string)                          O  func(struct) (int, error)
\*   A  func(string) (interface{}, error)     P  func(*int) (*struct, error)
\*   N  func() (interface{}, error)
\* and service T exposes W func(*struct).
Registry ==
    (<<"S">> :> [methods |->
        (<<"E">> :> ServiceMethod(<<"string">>, FALSE, "value")) @@
        (<<"V">> :> ServiceMethod(<<"string">>, TRUE, "none")) @@
        (<<"L">> :> ServiceMethod(<<>>, FALSE, "value")) @@
        (<<"O">> :> ServiceMethod(<<"struct">>, FALSE, "value")) @@
        (<<"A">> :> ServiceMethod(<<"string">>, FALSE, "iface")) @@
        (<<"P">> :> ServiceMethod(<<"*int">>, FALSE, "ptr")) @@
        (<<"N">> :> ServiceMethod(<<>>, FALSE, "iface"))]) @@
    (<<"T">> :> [methods |->
        (<<"W">> :> ServiceMethod(<<"*struct">>, TRUE, "none"))])

\* getMethod that takes the first two parts of a name with more parts.
getMethod_FirstTwoParts(services, name) ==
    LET nameParts == Split(name, ".") IN
    IF Len(nameParts) < 2
    THEN [method |-> <<>>,
          err |-> <<NewError(ErrorMethodNotFound, "Invalid method name")>>]
    ELSE LET servName == nameParts[1]
             methodName == nameParts[2]
         IN IF servName \notin DOMAIN services
            THEN [method |-> <<>>,
                  err |-> <<NewError(ErrorMethodNotFound, "API not found")>>]
            ELSE IF methodName \notin DOMAIN services[servName].methods
            THEN [method |-> <<>>,
                  err |-> <<NewError(ErrorMethodNotFound, "API doesn't have the method")>>]
            ELSE [method |-> <<services[servName].methods[methodName]>>,
                  err |-> <<>>]

\* getMethod: [method, err], one of them nil.
getMethod(services, name) ==
    LET nameParts == Split(name, ".") IN
    IF Len(nameParts) # 2
    THEN [method |-> <<>>,
          err |-> <<NewError(ErrorMethodNotFound, "Invalid method name")>>]
    ELSE LET servName == nameParts[1]
             methodName == nameParts[2]
         IN IF servName \notin DOMAIN services
            THEN [method |-> <<>>,
                  err |-> <<NewError(ErrorMethodNotFound, "API not found")>>]
            ELSE IF methodName \notin DOMAIN services[servName].methods
            THEN [method |-> <<>>,
                  err |-> <<NewError(ErrorMethodNotFound, "API doesn't have the method")>>]
            ELSE [method |-> <<services[servName].methods[methodName]>>,
                  err |-> <<>>]

\* decodeParams that only rejects an array with too many elements.
decodeParams_ShortArray(am, params) ==
    LET typesLen == Len(am.argTypes)
        isStruct == typesLen = 1 /\ am.argTypes[1] \in {"struct", "*struct"}
        structOK == params # <<>> /\ UnmarshalOK(params[1].t, "struct")
        arrayOK == params = <<>> \/ params[1].t \in {"arr", "null"}
        paramsArray == IF params # <<>> /\ params[1].t = "arr"
                       THEN params[1].e ELSE <<>>
    IN IF isStruct
       THEN IF structOK THEN [ok |-> TRUE, err |-> <<>>]
            ELSE [ok |-> FALSE,
                  err |-> <<NewError(ErrorInvalidParams, "Params must be an object")>>]
       ELSE IF ~arrayOK
       THEN [ok |-> FALSE,
             err |-> <<NewError(ErrorInvalidParams, "Params must be an array")>>]
       ELSE IF Len(paramsArray) > typesLen
       THEN [ok |-> FALSE,
             err |-> <<NewError(ErrorInvalidParams, "Wrong number of arguments")>>]
       ELSE IF \E i \in 1..Len(paramsArray) : ~UnmarshalOK(paramsArray[i], am.argTypes[i])
       THEN [ok |-> FALSE,
             err |-> <<NewError(ErrorInvalidParams, "Unable to decode parameter")>>]
       ELSE [ok |-> TRUE, err |-> <<>>]

\* decodeParams that decodes a params array by the array rule also for a
\* method whose only argument is a struct.
decodeParams_ArrayForStruct(am, params) ==
    LET typesLen == Len(am.argTypes)
        isStruct == /\ typesLen = 1
                    /\ am.argTypes[1] \in {"struct", "*struct"}
                    /\ ~(params # <<>> /\ params[1].t = "arr")
        structOK == params # <<>> /\ UnmarshalOK(params[1].t, "struct")
        arrayOK == params = <<>> \/ params[1].t \in {"arr", "null"}
        paramsArray == IF params # <<>> /\ params[1].t = "arr"
                       THEN params[1].e ELSE <<>>
    IN IF isStruct
       THEN IF structOK THEN [ok |-> TRUE, err |-> <<>>]
            ELSE [ok |-> FALSE,
                  err |-> <<NewError(ErrorInvalidParams, "Params must be an object")>>]
       ELSE IF ~arrayOK
       THEN [ok |-> FALSE,
             err |-> <<NewError(ErrorInvalidParams, "Params must be an array")>>]
       ELSE IF Len(paramsArray) # typesLen
       THEN [ok |-> FALSE,
             err |-> <<NewError(ErrorInvalidParams, "Wrong number of arguments")>>]
       ELSE IF \E i \in 1..typesLen : ~UnmarshalOK(paramsArray[i], am.argTypes[i])
       THEN [ok |-> FALSE,
             err |-> <<NewError(ErrorInvalidParams, "Unable to decode parameter")>>]
       ELSE [ok |-> TRUE, err |-> <<>>]

\* decodeParams: [ok, err]; params is the json.RawMessage of the request.
decodeParams(am, params) ==
    LET typesLen == Len(am.argTypes)
        isStruct == typesLen = 1 /\ am.argTypes[1] \in {"struct", "*struct"}
        \* json.Unmarshal fails on empty input
        structOK == params # <<>> /\ UnmarshalOK(params[1].t, "struct")
        \* json.Unmarshal(params, &paramsArray), only when len(params) > 0
        arrayOK == params = <<>> \/ params[1].t \in {"arr", "null"}
        paramsArray == IF params # <<>> /\ params[1].t = "arr"
                       THEN params[1].e ELSE <<>>
    IN IF isStruct
       THEN IF structOK THEN [ok |-> TRUE, err |-> <<>>]
            ELSE [ok |-> FALSE,
                  err |-> <<NewError(ErrorInvalidParams, "Params must be an object")>>]
       ELSE IF ~arrayOK
       THEN [ok |-> FALSE,
             err |-> <<NewError(ErrorInvalidParams, "Params must be an array")>>]
       ELSE IF Len(paramsArray) # typesLen
       THEN [ok |-> FALSE,
             err |-> <<NewError(ErrorInvalidParams, "Wrong number of arguments")>>]
       ELSE IF \E i \in 1..typesLen : ~UnmarshalOK(paramsArray[i], am.argTypes[i])
       THEN [ok |-> FALSE,
             err |-> <<NewError(ErrorInvalidParams, "Unable to decode parameter")>>]
       ELSE [ok |-> TRUE, err |-> <<>>]

\* What a handler may return: the first output ("v" a value, "nilptr" a nil
\* pointer, "nil" a nil interface value) and the error output.
HandlerErrors ==
    {<<>>,
     <<NewErrorWithData(101, "Secret data", "AllTypes")>>,
     <<NewErrorWithData(100, "Don't mention his name", "nil")>>,
     <<PlainError("An artifitial error")>>,
     <<PlainError("100% wrong")>>}

HandlerReturns(am) ==
    IF am.isEvent THEN {[out |-> "none", err |-> <<>>]}
    ELSE [out : CASE am.returnKind = "ptr" -> {"v", "nilptr"}
                  [] am.returnKind = "iface" -> {"v", "nil"}
                  [] OTHER -> {"v"},
          err : HandlerErrors]

\* reflect.Value.Interface() of the first output: only a nil value of an
\* interface type becomes a nil interface{}; a nil pointer stays non-nil.
Interface(out) == IF out = "nil" THEN <<>> ELSE <<out>>

\* callMethod with the isEvent test ahead of the decoding error: an event
\* never fails.
callMethod_EventsNeverFail(services, name, params, ret) ==
    LET gm == getMethod(services, name) IN
    IF gm.err # <<>> THEN [result |-> <<>>, err |-> gm.err, invoked |-> FALSE]
    ELSE LET method == gm.method[1]
             dp == decodeParams(method, params)
         IN IF method.isEvent
            THEN [result |-> <<>>, err |-> <<>>, invoked |-> dp.err = <<>>]
            ELSE IF dp.err # <<>>
            THEN [result |-> <<>>, err |-> dp.err, invoked |-> FALSE]
            ELSE [result |-> Interface(ret.out), err |-> ret.err, invoked |-> TRUE]

\* callMethod: [result, err, invoked]; ret is what the handler returns when
\* it is invoked, invoked tells whether method.Func.Call ran.
callMethod(services, name, params, ret) ==
    LET gm == getMethod(services, name) IN
    IF gm.err # <<>> THEN [result |-> <<>>, err |-> gm.err, invoked |-> FALSE]
    ELSE LET method == gm.method[1]
             dp == decodeParams(method, params)
         IN IF dp.err # <<>>
            THEN [result |-> <<>>, err |-> dp.err, invoked |-> FALSE]
            ELSE IF method.isEvent
            THEN [result |-> <<>>, err |-> <<>>, invoked |-> TRUE]
            ELSE [result |-> Interface(ret.out), err |-> ret.err, invoked |-> TRUE]

\* The returns the handler named by a request can produce (one dummy return
\* when no handler is reached).
ReturnsFor(services, name) ==
    LET gm == getMethod(services, name) IN
    IF gm.err # <<>> THEN {[out |-> "none", err |-> <<>>]}
    ELSE HandlerReturns(gm.method[1])

\* ------------------------------------------------------------ registration
\* strings.HasPrefix and strings.TrimPrefix.
HasPrefix(s, prefix) ==
    Len(s) >= Len(prefix) /\ SubSeq(s, 1, Len(prefix)) = prefix

TrimPrefix(s, prefix) ==
    IF HasPrefix(s, prefix) THEN SubSeq(s, Len(prefix) + 1, Len(s)) ELSE s

defMethodPrefix == <<"A", "p", "i">>

\* A method of a Go type: its name, whether it is exported, the types of its
\* non-receiver arguments and its outputs ("error" for the error type,
\* "value", "ptr", "iface" for the kinds Interface tells apart).
GoMethod(name, exported, argTypes, outs) ==
    [name |-> name, exported |-> exported, argTypes |-> argTypes, outs |-> outs]

\* A service instance as addService sees it:
\*   nil       "iface" for the nil interface value, "ptr" for a nil pointer
\*             of some type, "no" otherwise;
\*   wsName    what WsName() returns (<<>> without NameProvider);
\*   typeName  the name of the type (<<>> for an unnamed type);
\*   wsPrefix  <<prefix>> with PrefixProvider, <<>> without;
\*   wsMethods <<mapping>> with MethodsProvider, <<>> without; the mapping is
\*             a set of pairs <<exposed name, method name>>;
\*   methods   the method set of the type.
Instance(nil, wsName, typeName, wsPrefix, wsMethods, methods) ==
    [nil |-> nil, wsName |-> wsName, typeName |-> typeName,
     wsPrefix |-> wsPrefix, wsMethods |-> wsMethods, methods |-> methods]

\* The error newServiceMethod or addMethodsFromProvider returns: its text
\* names the method it is about.
MethodError(text, name) == [text |-> text, of |-> name]

\* newServiceMethod without the checks of the outputs: a method with outputs
\* is a call whatever their number and types.
newServiceMethod_AnyOutputs(method) ==
    LET isEvent == Len(method.outs) = 0
    IN IF ~method.exported
       THEN [sm |-> <<>>, err |-> <<MethodError("Method must be exported", method.name)>>]
       ELSE [sm |-> <<ServiceMethod(method.argTypes, isEvent,
                                    IF isEvent THEN "none" ELSE method.outs[1])>>,
             err |-> <<>>]

\* newServiceMethod: [sm, err], one of them nil.
newServiceMethod(method) ==
    LET numOut == Len(method.outs)
        isEvent == numOut = 0
    IN IF ~method.exported
       THEN [sm |-> <<>>, err |-> <<MethodError("Method must be exported", method.name)>>]
       ELSE IF numOut \notin {0, 2}
       THEN [sm |-> <<>>,
             err |-> <<MethodError("Method must have 0 or 2 outputs", method.name)>>]
       ELSE IF ~isEvent /\ method.outs[numOut] # "error"
       THEN [sm |-> <<>>,
             err |-> <<MethodError("Method last output must be of type error", method.name)>>]
       ELSE [sm |-> <<ServiceMethod(method.argTypes, isEvent,
                                    IF isEvent THEN "none" ELSE method.outs[1])>>,
             err |-> <<>>]

\* The method of a type with a name; reflect finds exported methods only.
MethodByName(instance, methodName) ==
    {m \in instance.methods : m.exported /\ m.name = methodName}

\* The map name -> serviceMethod of a set of (name, method) pairs that all
\* passed newServiceMethod.
MethodsMap(pairs) ==
    [n \in {pr[1] : pr \in pairs} |->
        newServiceMethod(CHOOSE m \in {pr[2] : pr \in {q \in pairs : q[1] = n}} : TRUE).sm[1]]

\* The order of strings: the letters in the order of their codes, and names
\* compared letter by letter.
Letters ==
    <<"A", "B", "C", "D", "E", "F", "G", "H", "I", "J", "K", "L", "M", "N",
      "O", "P", "Q", "R", "S", "T", "U", "V", "W", "X", "Y", "Z",
      "a", "b", "c", "d", "e", "f", "g", "h", "i", "j", "k", "l", "m", "n",
      "o", "p", "q", "r", "s", "t", "u", "v", "w", "x", "y", "z">>

Code(ch) == CHOOSE i \in 1..Len(Letters) : Letters[i] = ch

RECURSIVE Less(_, _)
Less(a, b) ==
    IF b = <<>> THEN FALSE
    ELSE IF a = <<>> THEN TRUE
    ELSE IF a[1] # b[1] THEN Code(a[1]) < Code(b[1])
    ELSE Less(Tail(a), Tail(b))

\* addMethodsByPrefix: [methods, err].  Type.Method(i) yields the exported
\* methods sorted by name, and the loop returns at the first that fails.
addMethodsByPrefix(instance) ==
    LET prefix == IF instance.wsPrefix # <<>> THEN instance.wsPrefix[1]
                  ELSE defMethodPrefix
        found == {m \in instance.methods : m.exported /\ HasPrefix(m.name, prefix)}
        failing == {m \in found : newServiceMethod(m).err # <<>>}
        first == CHOOSE m \in failing : \A o \in failing \ {m} : Less(m.name, o.name)
    IN IF failing # {}
       THEN [methods |-> <<>>, err |-> newServiceMethod(first).err]
       ELSE [methods |-> MethodsMap({<<TrimPrefix(m.name, prefix), m>> : m \in found}),
             err |-> <<>>]

\* addMethodsFromProvider: the set of the [methods, err] it may return.  It
\* ranges over the map WsMethods() returns, in the order the runtime picks
\* for this range, and returns at the first entry that fails: each failing
\* entry is the first one in some order.
addMethodsFromProvider(instance) ==
    LET mapping == instance.wsMethods[1]
        entryErr(pr) ==
            IF MethodByName(instance, pr[2]) = {}
            THEN <<MethodError("is not a method of", pr[2])>>
            ELSE newServiceMethod(CHOOSE m \in MethodByName(instance, pr[2]) : TRUE).err
        failing == {pr \in mapping : entryErr(pr) # <<>>}
        resolved == {<<pr[1], CHOOSE m \in MethodByName(instance, pr[2]) : TRUE>> :
                        pr \in mapping}
    IN IF failing # {}
       THEN {[methods |-> <<>>, err |-> entryErr(pr)] : pr \in failing}
       ELSE {[methods |-> MethodsMap(resolved), err |-> <<>>]}

\* addService: the set of the [services, err, panic] it may end with.
\* services is the map it leaves, err the error it returns (nil for none);
\* panic tells that it does not return: reflect.Indirect of a nil pointer is
\* the zero Value, whose Type() panics.
addService(services, instance) ==
    LET fail(e) == [services |-> services, err |-> <<e>>, panic |-> FALSE]
        name == IF instance.wsName # <<>> THEN instance.wsName ELSE instance.typeName
        added(am) ==
            IF am.err # <<>>
            THEN fail(am.err[1])
            ELSE IF DOMAIN am.methods = {}
            THEN fail(MethodError("No exposed methods found", <<>>))
            ELSE [services |-> [n \in (DOMAIN services) \cup {name} |->
                                   IF n = name THEN [methods |-> am.methods]
                                   ELSE services[n]],
                  err |-> <<>>, panic |-> FALSE]
    IN IF instance.nil = "iface"
       THEN {fail(MethodError("Attempt to add nil service instance", <<>>))}
       ELSE IF instance.wsName = <<>> /\ instance.nil = "ptr"
       THEN {[services |-> services, err |-> <<>>, panic |-> TRUE]}
       ELSE IF name = <<>>
       THEN {fail(MethodError("Unable to get a name for", <<>>))}
       ELSE IF instance.wsMethods # <<>>
       THEN {added(am) : am \in addMethodsFromProvider(instance)}
       ELSE {added(addMethodsByPrefix(instance))}

\* The service types of a session.  S and T are the services of Registry; M
\* names its one method through WsMethods.
MethodsOfS ==
    {GoMethod(<<"A", "p", "i", "E">>, TRUE, <<"string">>, <<"value", "error">>),
     GoMethod(<<"A", "p", "i", "V">>, TRUE, <<"string">>, <<>>),
     GoMethod(<<"A", "p", "i", "L">>, TRUE, <<>>, <<"value", "error">>),
     GoMethod(<<"A", "p", "i", "O">>, TRUE, <<"struct">>, <<"value", "error">>),
     GoMethod(<<"A", "p", "i", "A">>, TRUE, <<"string">>, <<"iface", "error">>),
     GoMethod(<<"A", "p", "i", "P">>, TRUE, <<"*int">>, <<"ptr", "error">>),
     GoMethod(<<"A", "p", "i", "N">>, TRUE, <<>>, <<"iface", "error">>)}

MethodsOfT == {GoMethod(<<"S", "e", "r", "v", "W">>, TRUE, <<"*struct">>, <<>>)}

ServiceS == Instance("no", <<>>, <<"S">>, <<>>, <<>>, MethodsOfS)

ServiceT == Instance("no", <<"T">>, <<"N">>, <<<<"S", "e", "r", "v">>>>, <<>>, MethodsOfT)

ServiceM ==
    Instance("no", <<"M">>, <<"P">>, <<>>, <<{<<<<"l">>, <<"G", "e", "t">>>>}>>,
             {GoMethod(<<"G", "e", "t">>, TRUE, <<>>, <<"value", "error">>)})

\* A valid method, and methods newServiceMethod rejects.
ApiOk == GoMethod(<<"A", "p", "i", "K">>, TRUE, <<>>, <<"value", "error">>)

OneOutput == GoMethod(<<"A", "p", "i", "Q">>, TRUE, <<>>, <<"value">>)

ThreeOutputs ==
    GoMethod(<<"A", "p", "i", "M">>, TRUE, <<"int">>, <<"value", "value", "error">>)

NoErrorOutput == GoMethod(<<"A", "p", "i", "R">>, TRUE, <<"int">>, <<"value", "value">>)

\* The instances a caller may hand to newWsJsonClient:
\*   the three services above; nil; nil pointers of the types of S and T;
\*   a value of an unnamed type; a type without exposed methods; types that
\*   expose a method with 1 output, 3 outputs, 2 outputs without error; a
\*   type whose WsMethods names an unexported method, and one whose
\*   WsMethods names a method with 3 outputs; a type with a method of 1
\*   output that it does not expose; a type of another shape that calls
\*   itself S; a type that exposes two methods newServiceMethod rejects; a
\*   type whose WsMethods has two entries that fail.
InstanceValues ==
    {ServiceS, ServiceT, ServiceM,
     Instance("iface", <<>>, <<>>, <<>>, <<>>, {}),
     [ServiceS EXCEPT !.nil = "ptr"],
     [ServiceT EXCEPT !.nil = "ptr"],
     Instance("no", <<>>, <<>>, <<>>, <<>>, {ApiOk}),
     Instance("no", <<>>, <<"U">>, <<>>, <<>>,
              {GoMethod(<<"N", "o", "o", "p">>, TRUE, <<>>, <<>>)}),
     Instance("no", <<>>, <<"Q">>, <<>>, <<>>, {ApiOk, OneOutput}),
     Instance("no", <<>>, <<"X">>, <<>>, <<>>, {ApiOk, ThreeOutputs}),
     Instance("no", <<>>, <<"R">>, <<>>, <<>>, {ApiOk, NoErrorOutput}),
     Instance("no", <<>>, <<"Y">>, <<>>,
              <<{<<<<"n">>, <<"N", "o", "o", "p">>>>, <<<<"f">>, <<"n", "o", "t">>>>}>>,
              {GoMethod(<<"N", "o", "o", "p">>, TRUE, <<>>, <<>>),
               GoMethod(<<"n", "o", "t">>, FALSE, <<>>, <<>>)}),
     Instance("no", <<>>, <<"Z">>, <<>>,
              <<{<<<<"k">>, ApiOk.name>>, <<<<"m">>, ThreeOutputs.name>>}>>,
              {ApiOk, ThreeOutputs}),
     Instance("no", <<>>, <<"H">>, <<>>, <<>>,
              {ApiOk, GoMethod(<<"H", "e", "l", "p">>, TRUE, <<>>, <<"value">>)}),
     Instance("no", <<"S">>, <<"D">>, <<>>, <<>>, {ApiOk}),
     Instance("no", <<>>, <<"B">>, <<>>, <<>>, {OneOutput, ThreeOutputs}),
     Instance("no", <<>>, <<"W">>, <<>>,
              <<{<<<<"f">>, <<"n", "o", "t">>>>, <<<<"m">>, ThreeOutputs.name>>}>>,
              {ApiOk, ThreeOutputs})}

\* ----------------------------------------------------------------- session
\* int(idFloat): truncation toward zero of h / 2.
IntOf(h) == IF h >= 0 THEN h \div 2 ELSE -((-h) \div 2)

\* The pending-call table maps an id to the slot (channel) registered under
\* it; a slot is named by the local call that made it.
addPendingResult(pending, id, ch) ==
    [k \in (DOMAIN pending) \cup {id} |-> IF k = id THEN ch ELSE pending[k]]

\* removePendingResult that looks the slot up and leaves the entry, as
\* getPendingResult does.
removePendingResult_KeepsEntry(pending, id) ==
    IF id \in DOMAIN pending
    THEN [ch |-> <<pending[id]>>, pending |-> pending]
    ELSE [ch |-> <<>>, pending |-> pending]

\* removePendingResult: [ch, pending]; ch is nil when there is no entry.
removePendingResult(pending, id) ==
    IF id \in DOMAIN pending
    THEN [ch |-> <<pending[id]>>,
          pending |-> [k \in (DOMAIN pending) \ {id} |-> pending[k]]]
    ELSE [ch |-> <<>>, pending |-> pending]

\* The id sequence goroutine: for i := 1; ; { idSeq <- i }.  The loop has no
\* post statement, so the value it offers next is the one it just sent.
idSeqAfterSend(i) == i

\* handleRequest that answers a successful request only when it has an id.
handleRequest_SilentWithoutId(request, cm) ==
    IF cm.err # <<>>
    THEN IF cm.err[1].typed
         THEN <<[NewErrorResponse(cm.err[1]) EXCEPT !.Id = request.Id]>>
         ELSE <<makeError(request, ErrorInternalError, cm.err[1].message)>>
    ELSE IF cm.result # <<>> /\ request.Id # NilId
    THEN <<[Version |-> JSONRPCVersion, Result |-> cm.result,
            Err |-> <<>>, Id |-> request.Id]>>
    ELSE <<>>

\* handleRequest that fills Result before it looks at the error.
handleRequest_KeepsResult(request, cm) ==
    IF cm.err # <<>>
    THEN IF cm.err[1].typed
         THEN <<[NewErrorResponse(cm.err[1]) EXCEPT !.Id = request.Id,
                                                    !.Result = cm.result]>>
         ELSE <<[makeError(request, ErrorInternalError, cm.err[1].message)
                    EXCEPT !.Result = cm.result]>>
    ELSE IF cm.result # <<>>
    THEN <<[Version |-> JSONRPCVersion, Result |-> cm.result,
            Err |-> <<>>, Id |-> request.Id]>>
    ELSE <<>>

\* handleRequest that leaves the null id of NewErrorResponse in the response
\* to a typed error.
handleRequest_ErrorWithoutId(request, cm) ==
    IF cm.err # <<>>
    THEN IF cm.err[1].typed
         THEN <<NewErrorResponse(cm.err[1])>>
         ELSE <<makeError(request, ErrorInternalError, cm.err[1].message)>>
    ELSE IF cm.result # <<>>
    THEN <<[Version |-> JSONRPCVersion, Result |-> cm.result,
            Err |-> <<>>, Id |-> request.Id]>>
    ELSE <<>>

\* handleRequest that acknowledges every request that has an id: without a
\* result it answers with a null result.
handleRequest_AcksWithId(request, cm) ==
    IF cm.err # <<>>
    THEN IF cm.err[1].typed
         THEN <<[NewErrorResponse(cm.err[1]) EXCEPT !.Id = request.Id]>>
         ELSE <<makeError(request, ErrorInternalError, cm.err[1].message)>>
    ELSE IF cm.result # <<>> \/ request.Id # NilId
    THEN <<[Version |-> JSONRPCVersion, Result |-> cm.result,
            Err |-> <<>>, Id |-> request.Id]>>
    ELSE <<>>

\* handleRequest: the response (nil for none); cm is what callMethod returned.
handleRequest(request, cm) ==
    IF cm.err # <<>>
    THEN IF cm.err[1].typed
         THEN <<[NewErrorResponse(cm.err[1]) EXCEPT !.Id = request.Id]>>
         ELSE <<makeError(request, ErrorInternalError, cm.err[1].message)>>
    ELSE IF cm.result # <<>>
    THEN <<[Version |-> JSONRPCVersion, Result |-> cm.result,
            Err |-> <<>>, Id |-> request.Id]>>
    ELSE <<>>

\* handleResult up to the send on the slot: [ch, pending, log]; ch is the
\* slot the result is to be written to and then closed (nil: dropped).
handleResult(request, pending) ==
    IF request.Id.k = "nil"
    THEN [ch |-> <<>>, pending |-> pending, log |-> "Result with null id received"]
    ELSE IF request.Id.k # "float64"
    THEN [ch |-> <<>>, pending |-> pending, log |-> "Result id must be an integer"]
    ELSE LET rm == removePendingResult(pending, IntOf(request.Id.h)) IN
         IF rm.ch = <<>>
         THEN [ch |-> <<>>, pending |-> rm.pending,
               log |-> "No previous request found for result.id"]
         ELSE [ch |-> rm.ch, pending |-> rm.pending, log |-> ""]

\* handleMessage that routes a frame before it looks at the version: a
\* result frame is correlated whatever its version.
handleMessage_RoutesFirst(w, services, pending, ret) ==
    LET d == Decode(w)
        request == d.request
        none == [resp |-> <<>>, ch |-> <<>>, pending |-> pending,
                 invoked |-> FALSE, log |-> ""]
    IN IF d.err
       THEN [none EXCEPT !.resp = <<NewErrorResponse(NewError(ErrorParse, "Parse Error"))>>]
       ELSE IF request.Result # <<>> /\ request.Params # <<>>
       THEN [none EXCEPT !.resp = <<makeError(request, ErrorInvalidRequest,
                            "Message can't have both 'params' and 'result' present")>>]
       ELSE IF request.Result # <<>>
       THEN LET hr == handleResult(request, pending) IN
            [none EXCEPT !.ch = hr.ch, !.pending = hr.pending, !.log = hr.log]
       ELSE IF request.Version # JSONRPCVersion
       THEN [none EXCEPT !.resp = <<makeError(request, ErrorInvalidRequest,
                                              "Invalid JSONRPC Version")>>]
       ELSE LET cm == callMethod(services, request.Method, request.Params, ret) IN
            [none EXCEPT !.resp = handleRequest(request, cm), !.invoked = cm.invoked]

\* handleMessage without the test for params and result together: the
\* result wins.
handleMessage_ResultWins(w, services, pending, ret) ==
    LET d == Decode(w)
        request == d.request
        none == [resp |-> <<>>, ch |-> <<>>, pending |-> pending,
                 invoked |-> FALSE, log |-> ""]
    IN IF d.err
       THEN [none EXCEPT !.resp = <<NewErrorResponse(NewError(ErrorParse, "Parse Error"))>>]
       ELSE IF request.Version # JSONRPCVersion
       THEN [none EXCEPT !.resp = <<makeError(request, ErrorInvalidRequest,
                                              "Invalid JSONRPC Version")>>]
       ELSE IF request.Result # <<>>
       THEN LET hr == handleResult(request, pending) IN
            [none EXCEPT !.ch = hr.ch, !.pending = hr.pending, !.log = hr.log]
       ELSE LET cm == callMethod(services, request.Method, request.Params, ret) IN
            [none EXCEPT !.resp = handleRequest(request, cm), !.invoked = cm.invoked]

\* handleMessage that answers a result it cannot correlate with an error
\* response.
handleMessage_AnswersDropped(w, services, pending, ret) ==
    LET d == Decode(w)
        request == d.request
        none == [resp |-> <<>>, ch |-> <<>>, pending |-> pending,
                 invoked |-> FALSE, log |-> ""]
    IN IF d.err
       THEN [none EXCEPT !.resp = <<NewErrorResponse(NewError(ErrorParse, "Parse Error"))>>]
       ELSE IF request.Version # JSONRPCVersion
       THEN [none EXCEPT !.resp = <<makeError(request, ErrorInvalidRequest,
                                              "Invalid JSONRPC Version")>>]
       ELSE IF request.Result # <<>> /\ request.Params # <<>>
       THEN [none EXCEPT !.resp = <<makeError(request, ErrorInvalidRequest,
                            "Message can't have both 'params' and 'result' present")>>]
       ELSE IF request.Result # <<>>
       THEN LET hr == handleResult(request, pending) IN
            [none EXCEPT !.ch = hr.ch, !.pending = hr.pending, !.log = hr.log,
                         !.resp = IF hr.ch = <<>>
                                  THEN <<makeError(request, ErrorInvalidRequest, hr.log)>>
                                  ELSE <<>>]
       ELSE LET cm == callMethod(services, request.Method, request.Params, ret) IN
            [none EXCEPT !.resp = handleRequest(request, cm), !.invoked = cm.invoked]

\* handleMessage with the rejection of a frame that has neither params nor
\* result.
handleMessage_RejectsBare(w, services, pending, ret) ==
    LET d == Decode(w)
        request == d.request
        none == [resp |-> <<>>, ch |-> <<>>, pending |-> pending,
                 invoked |-> FALSE, log |-> ""]
    IN IF d.err
       THEN [none EXCEPT !.resp = <<NewErrorResponse(NewError(ErrorParse, "Parse Error"))>>]
       ELSE IF request.Version # JSONRPCVersion
       THEN [none EXCEPT !.resp = <<makeError(request, ErrorInvalidRequest,
                                              "Invalid JSONRPC Version")>>]
       ELSE IF request.Result # <<>> /\ request.Params # <<>>
       THEN [none EXCEPT !.resp = <<makeError(request, ErrorInvalidRequest,
                            "Message can't have both 'params' and 'result' present")>>]
       ELSE IF request.Result = <<>> /\ request.Params = <<>>
       THEN [none EXCEPT !.resp = <<makeError(request, ErrorInvalidRequest,
                            "No 'params' or 'result' is present in message")>>]
       ELSE IF request.Result # <<>>
       THEN LET hr == handleResult(request, pending) IN
            [none EXCEPT !.ch = hr.ch, !.pending = hr.pending, !.log = hr.log]
       ELSE LET cm == callMethod(services, request.Method, request.Params, ret) IN
            [none EXCEPT !.resp = handleRequest(request, cm), !.invoked = cm.invoked]

\* handleMessage up to the first point where it blocks:
\*   resp     the response it returns (nil for none),
\*   ch       the slot it delivers request.Result to before it returns,
\*   pending  the pending-call table it leaves,
\*   invoked  whether a service method was invoked (ret is what it returns),
\*   log      the line it logs.
handleMessage(w, services, pending, ret) ==
    LET d == Decode(w)
        request == d.request
        none == [resp |-> <<>>, ch |-> <<>>, pending |-> pending,
                 invoked |-> FALSE, log |-> ""]
    IN IF d.err
       THEN [none EXCEPT !.resp = <<NewErrorResponse(NewError(ErrorParse, "Parse Error"))>>]
       ELSE IF request.Version # JSONRPCVersion
       THEN [none EXCEPT !.resp = <<makeError(request, ErrorInvalidRequest,
                                              "Invalid JSONRPC Version")>>]
       ELSE IF request.Result # <<>> /\ request.Params # <<>>
       THEN [none EXCEPT !.resp = <<makeError(request, ErrorInvalidRequest,
                            "Message can't have both 'params' and 'result' present")>>]
       ELSE IF request.Result # <<>>
       THEN LET hr == handleResult(request, pending) IN
            [none EXCEPT !.ch = hr.ch, !.pending = hr.pending, !.log = hr.log]
       ELSE LET cm == callMethod(services, request.Method, request.Params, ret) IN
            [none EXCEPT !.resp = handleRequest(request, cm), !.invoked = cm.invoked]

\* The methods of the registered services that write service state: S.V and
\* T.W store their argument in lastEvent.
WritesLastEvent(name) == name \in {<<"S", ".", "V">>, <<"T", ".", "W">>}

\* ------------------------------------------------------------------- state
VARIABLES
    services,        \* manager.services: the registry
    lastEvent,       \* the field the event handlers of the services write
    pendingResults,  \* the pending-call table: id -> slot
    idSeq,           \* the value the id sequence goroutine offers next
    output,          \* the output channel, a queue of at most OutputCap frames
    closed,          \* the read loop has ended and closed the connection
    nread,           \* the number of messages the read loop has read
    tasks,           \* the bag of running processMessage goroutines
    callers,         \* the local SendMessage invocations and their slots
    atPeer,          \* the calls whose request the peer has and has not answered
    ctor             \* newWsJsonClient: where it is and the services left to add

vars == <<services, lastEvent, pendingResults, idSeq, output, closed, nread,
          tasks, callers, atPeer, ctor>>

Calls == 1..MaxCalls

\* A wire message.
Frame(syn, jsonrpc, method, params, result, id) ==
    [syn |-> syn, jsonrpc |-> jsonrpc, method |-> method, params |-> params,
     result |-> result, id |-> id, re |-> 0]

AbsentId == [k |-> "absent", h |-> 0]
NullId == [k |-> "null", h |-> 0]
StrId == [k |-> "str", h |-> 0]
NumId(h) == [k |-> "num", h |-> h]

\* The bytes xxx.
Garbage == Frame("garbage", "", <<>>, JAbsent, JAbsent, AbsentId)

\* The result frame the peer sends in answer to the request of call c, which
\* carried id.
ReplyFrame(c, id) ==
    [Frame("ok", JSONRPCVersion, <<>>, JAbsent, JObj, NumId(2 * id)) EXCEPT !.re = c]

\* The messages the peer sends on its own in a session with concurrent
\* handlers: a request with an id, an event, results nobody asked for (with
\* the ids 1 and 1.5), and bytes that are no JSON.
CoreFrames ==
    {Frame("ok", JSONRPCVersion, <<"S", ".", "E">>, JArr(<<"str">>), JAbsent, NumId(4)),
     Frame("ok", JSONRPCVersion, <<"S", ".", "V">>, JArr(<<"str">>), JAbsent, AbsentId),
     Frame("ok", JSONRPCVersion, <<>>, JAbsent, JInt, NumId(2)),
     Frame("ok", JSONRPCVersion, <<>>, JAbsent, JInt, NumId(3)),
     Garbage}

\* A processMessage goroutine: its message, where it is, and what
\* handleMessage has produced.
\* ret is what the service method returned, if one was invoked.
NewTask(w) ==
    [pc |-> "handle", msg |-> w, resp |-> <<>>, ch |-> <<>>,
     invoked |-> FALSE, ret |-> <<>>, log |-> ""]

\* A local SendMessage invocation: where it is, its id and slot, what the
\* caller has received on the slot, and whether it registered the slot after
\* the read loop had ended.
IdleCaller ==
    [pc |-> "idle", isMethod |-> FALSE, id |-> 0, ch |-> "none", got |-> <<>>,
     late |-> FALSE]

\* The bag of goroutines after tk has become tk2.
Replace(bag, tk, tk2) == (bag (-) SetToBag({tk})) (+) SetToBag({tk2})

\* newWsJsonClient has returned the session for the services S and T.
Constructed ==
    [pc |-> "returned", list |-> <<>>, given |-> <<ServiceS, ServiceT>>, err |-> <<>>]

Init ==
    /\ services = Registry
    /\ lastEvent = ""
    /\ pendingResults = <<>>
    /\ idSeq = IdSeqFirst
    /\ output = <<>>
    /\ closed = FALSE
    /\ nread = 0
    /\ tasks = EmptyBag
    /\ callers = [c \in Calls |-> IdleCaller]
    /\ atPeer = {}
    /\ ctor = Constructed

\* ----------------------------------------------------------------- actions
\* A read loop that calls processMessage itself: it reads the next message
\* when the handling of the last one has returned.
ReadLoopReadFrom_Inline(own) ==
    /\ ~closed
    /\ nread < MaxMsgs
    /\ tasks = EmptyBag
    /\ nread' = nread + 1
    /\ \E w \in own \cup {ReplyFrame(c, callers[c].id) : c \in atPeer} :
          /\ tasks' = tasks (+) SetToBag({NewTask(w)})
          /\ atPeer' = atPeer \ {w.re}
    /\ UNCHANGED <<ctor, services, lastEvent, pendingResults, idSeq, output, closed, callers>>

\* readLoop: NextReader returns a message and go processMessage(message).
\* The message is one the peer sends on its own or its answer to a request
\* it has received.
ReadLoopReadFrom(own) ==
    /\ ~closed
    /\ nread < MaxMsgs
    /\ nread' = nread + 1
    /\ \E w \in own \cup {ReplyFrame(c, callers[c].id) : c \in atPeer} :
          /\ tasks' = tasks (+) SetToBag({NewTask(w)})
          /\ atPeer' = atPeer \ {w.re}
    /\ UNCHANGED <<ctor, services, lastEvent, pendingResults, idSeq, output, closed, callers>>

ReadLoopRead == ReadLoopReadFrom(CoreFrames)

\* readLoop: NextReader fails, the loop breaks and the deferred conn.Close()
\* runs.
ReadLoopEnd ==
    /\ ~closed
    /\ closed' = TRUE
    /\ UNCHANGED <<ctor, services, lastEvent, pendingResults, idSeq, output, nread,
                   tasks, callers, atPeer>>

\* processMessage whose handlers are one-shot: a method that has been
\* invoked is taken out of its service.
HandleMessage_OneShot(tk) ==
    /\ tk.pc = "handle"
    /\ LET request == Decode(tk.msg).request IN
       \E ret \in ReturnsFor(services, request.Method) :
          LET r == handleMessage(tk.msg, services, pendingResults, ret)
              parts == Split(request.Method, ".")
          IN
          /\ tasks' = Replace(tasks, tk,
                 [tk EXCEPT !.pc = IF r.ch # <<>> THEN "deliver" ELSE "respond",
                            !.resp = r.resp, !.ch = r.ch,
                            !.invoked = r.invoked, !.log = r.log,
                            !.ret = IF r.invoked THEN <<ret>> ELSE <<>>])
          /\ pendingResults' = r.pending
          /\ lastEvent' = IF r.invoked /\ WritesLastEvent(request.Method)
                          THEN "event" ELSE lastEvent
          /\ services' = IF r.invoked
                         THEN [services EXCEPT ![parts[1]].methods =
                                  [k \in (DOMAIN @) \ {parts[2]} |-> @[k]]]
                         ELSE services
    /\ UNCHANGED <<ctor, idSeq, output, closed, nread, callers, atPeer>>

\* processMessage: handleMessage up to the point where it returns or blocks
\* on the slot.
HandleMessage(tk) ==
    /\ tk.pc = "handle"
    /\ LET request == Decode(tk.msg).request IN
       \E ret \in ReturnsFor(services, request.Method) :
          LET r == handleMessage(tk.msg, services, pendingResults, ret) IN
          /\ tasks' = Replace(tasks, tk,
                 [tk EXCEPT !.pc = IF r.ch # <<>> THEN "deliver" ELSE "respond",
                            !.resp = r.resp, !.ch = r.ch,
                            !.invoked = r.invoked, !.log = r.log,
                            !.ret = IF r.invoked THEN <<ret>> ELSE <<>>])
          /\ pendingResults' = r.pending
          /\ lastEvent' = IF r.invoked /\ WritesLastEvent(request.Method)
                          THEN "event" ELSE lastEvent
    /\ UNCHANGED <<ctor, services, idSeq, output, closed, nread, callers, atPeer>>

\* handleResult on a slot with a buffer: the send completes whether or not
\* the caller is receiving.
Deliver_Buffered(tk) ==
    /\ tk.pc = "deliver"
    /\ LET c == tk.ch[1] IN
       /\ callers[c].ch = "open"
       /\ callers' = [callers EXCEPT ![c].got =
              Append(@, [val |-> Decode(tk.msg).request.Result,
                         id |-> tk.msg.id, re |-> tk.msg.re])]
    /\ tasks' = Replace(tasks, tk, [tk EXCEPT !.pc = "close"])
    /\ UNCHANGED <<ctor, services, lastEvent, pendingResults, idSeq, output, closed,
                   nread, atPeer>>

\* handleResult: ch <- request.Result, a rendezvous with the caller that
\* receives on the slot SendMessage returned.
Deliver(tk) ==
    /\ tk.pc = "deliver"
    /\ LET c == tk.ch[1] IN
       /\ callers[c].pc = "await"
       /\ callers[c].ch = "open"
       /\ callers' = [callers EXCEPT ![c].got =
              Append(@, [val |-> Decode(tk.msg).request.Result,
                         id |-> tk.msg.id, re |-> tk.msg.re])]
    /\ tasks' = Replace(tasks, tk, [tk EXCEPT !.pc = "close"])
    /\ UNCHANGED <<ctor, services, lastEvent, pendingResults, idSeq, output, closed,
                   nread, atPeer>>

\* handleResult: close(ch) and return nil.
CloseSlot(tk) ==
    /\ tk.pc = "close"
    /\ callers' = [callers EXCEPT ![tk.ch[1]].ch = "closed"]
    /\ tasks' = Replace(tasks, tk, [tk EXCEPT !.pc = "respond"])
    /\ UNCHANGED <<ctor, services, lastEvent, pendingResults, idSeq, output, closed,
                   nread, atPeer>>

\* processMessage: if response != nil { wsjc.output <- response }, which
\* blocks while the queue is full; then the goroutine returns.
SendResponse(tk) ==
    /\ tk.pc = "respond"
    /\ IF tk.resp # <<>>
       THEN /\ Len(output) < OutputCap
            /\ output' = Append(output, [kind |-> "response",
                                         frame |-> tk.resp[1], by |-> 0])
       ELSE output' = output
    /\ tasks' = tasks (-) SetToBag({tk})
    /\ UNCHANGED <<ctor, services, lastEvent, pendingResults, idSeq, closed, nread,
                   callers, atPeer>>

\* SendMessage that draws the id and registers the slot before it marshals
\* the params.
SendMessageStart_MarshalLast(c) ==
    /\ callers[c].pc = "idle"
    /\ IF c = 1 THEN TRUE ELSE callers[c - 1].pc # "idle"
    /\ \E isMethod \in BOOLEAN, marshalOK \in BOOLEAN :
          /\ callers' = [callers EXCEPT ![c] =
                [@ EXCEPT !.isMethod = isMethod,
                          !.pc = IF ~marshalOK THEN "failed"
                                 ELSE IF isMethod THEN "drawid" ELSE "enqueue"]]
          /\ pendingResults' = IF isMethod /\ ~marshalOK
                               THEN addPendingResult(pendingResults, idSeq, c)
                               ELSE pendingResults
    /\ UNCHANGED <<ctor, services, lastEvent, idSeq, output, closed, nread, tasks, atPeer>>

\* SendMessage: json.Marshal(params); on failure return (nil, err).
SendMessageStart(c) ==
    /\ callers[c].pc = "idle"
    /\ IF c = 1 THEN TRUE ELSE callers[c - 1].pc # "idle"
    /\ \E isMethod \in BOOLEAN, marshalOK \in BOOLEAN :
          callers' = [callers EXCEPT ![c] =
              [@ EXCEPT !.isMethod = isMethod,
                        !.pc = IF ~marshalOK THEN "failed"
                               ELSE IF isMethod THEN "drawid" ELSE "enqueue"]]
    /\ UNCHANGED <<ctor, services, lastEvent, pendingResults, idSeq, output, closed,
                   nread, tasks, atPeer>>

\* SendMessage: id := <-wsjc.idSeq; chr := make(chan json.RawMessage).
DrawId(c) ==
    /\ callers[c].pc = "drawid"
    /\ callers' = [callers EXCEPT ![c] =
           [@ EXCEPT !.id = idSeq, !.ch = "open", !.pc = "register"]]
    /\ idSeq' = idSeqAfterSend(idSeq)
    /\ UNCHANGED <<ctor, services, lastEvent, pendingResults, output, closed, nread,
                   tasks, atPeer>>

\* SendMessage: wsjc.addPendingResult(id, chr).
Register(c) ==
    /\ callers[c].pc = "register"
    /\ pendingResults' = addPendingResult(pendingResults, callers[c].id, c)
    /\ callers' = [callers EXCEPT ![c] = [@ EXCEPT !.pc = "enqueue", !.late = closed]]
    /\ UNCHANGED <<ctor, services, lastEvent, idSeq, output, closed, nread, tasks, atPeer>>

\* A Request whose Id is set for events too (the zero id).
OutRequest_AlwaysId(c) ==
    [Version |-> JSONRPCVersion, Method |-> "someMethod", Params |-> <<JObj>>,
     Id |-> [k |-> "int", h |-> 2 * callers[c].id]]

\* The Request SendMessage builds.
OutRequest(c) ==
    [Version |-> JSONRPCVersion, Method |-> "someMethod", Params |-> <<JObj>>,
     Id |-> IF callers[c].isMethod THEN [k |-> "int", h |-> 2 * callers[c].id]
            ELSE NilId]

\* SendMessage that does not wait for a place in the queue.
Enqueue_Unbounded(c) ==
    /\ callers[c].pc = "enqueue"
    /\ output' = Append(output, [kind |-> "request", frame |-> OutRequest(c), by |-> c])
    /\ callers' = [callers EXCEPT ![c].pc = IF callers[c].isMethod THEN "await" ELSE "sent"]
    /\ UNCHANGED <<ctor, services, lastEvent, pendingResults, idSeq, closed, nread,
                   tasks, atPeer>>

\* SendMessage: wsjc.output <- request, then return ch.
Enqueue(c) ==
    /\ callers[c].pc = "enqueue"
    /\ Len(output) < OutputCap
    /\ output' = Append(output, [kind |-> "request", frame |-> OutRequest(c), by |-> c])
    /\ callers' = [callers EXCEPT ![c].pc = IF callers[c].isMethod THEN "await" ELSE "sent"]
    /\ UNCHANGED <<ctor, services, lastEvent, pendingResults, idSeq, closed, nread,
                   tasks, atPeer>>

\* The caller ranges over the slot: the receive on a closed slot ends it.
SeeClosed(c) ==
    /\ callers[c].pc = "await"
    /\ callers[c].ch = "closed"
    /\ callers' = [callers EXCEPT ![c].pc = "closed"]
    /\ UNCHANGED <<ctor, services, lastEvent, pendingResults, idSeq, output, closed,
                   nread, tasks, atPeer>>

\* The consumer of the output channel takes the frame at its head; a request
\* with an id is then with the peer.
Drain ==
    /\ output # <<>>
    /\ output' = Tail(output)
    /\ atPeer' = IF Head(output).kind = "request" /\ Head(output).frame.Id.k # "nil"
                 THEN atPeer \cup {Head(output).by} ELSE atPeer
    /\ UNCHANGED <<ctor, services, lastEvent, pendingResults, idSeq, closed, nread,
                   tasks, callers>>

TaskStep ==
    \E tk \in BagToSet(tasks) :
        HandleMessage(tk) \/ Deliver(tk) \/ CloseSlot(tk) \/ SendResponse(tk)

CallerStep ==
    \E c \in Calls :
        SendMessageStart(c) \/ DrawId(c) \/ Register(c) \/ Enqueue(c) \/ SeeClosed(c)

Next == ReadLoopRead \/ ReadLoopEnd \/ TaskStep \/ CallerStep \/ Drain

Spec == Init /\ [][Next]_vars

\* ------------------------------------------------- a peer that only answers
\* The session with a peer that sends nothing on its own: every inbound
\* message is the answer to a request the peer has received.
ReadLoopReadReply == ReadLoopReadFrom({})

CallNext == ReadLoopReadReply \/ TaskStep \/ CallerStep \/ Drain

CallSpec == Init /\ [][CallNext]_vars

\* --------------------------------------------- a peer that sends results
\* The session with a peer that sends result frames with the id 1 on its
\* own, besides its answers.
ResultFrames == {Frame("ok", JSONRPCVersion, <<>>, JAbsent, JInt, NumId(2))}

ReadLoopReadResult == ReadLoopReadFrom(ResultFrames)

ResultNext == ReadLoopReadResult \/ TaskStep \/ CallerStep \/ Drain

ResultSpec == Init /\ [][ResultNext]_vars

\* ------------------------------------------------- a full output queue
\* The session when earlier SendEvent invocations have filled the output
\* queue, or nearly, and a slow writer takes a frame only while fewer than
\* MaxTaken places of the queue are free.  The peer sends bytes that are no
\* JSON, which are answered, and result frames with the id 1.
QueueFrames == {Garbage, Frame("ok", JSONRPCVersion, <<>>, JAbsent, JInt, NumId(2))}

\* The request of an earlier SendEvent, as it stands in the queue.
QueuedEvent ==
    [kind |-> "request",
     frame |-> [Version |-> JSONRPCVersion, Method |-> "someMethod",
                Params |-> <<JObj>>, Id |-> NilId],
     by |-> 0]

QueueInit ==
    /\ services = Registry
    /\ lastEvent = ""
    /\ pendingResults = <<>>
    /\ idSeq = IdSeqFirst
    /\ \E k \in (OutputCap - MaxTaken)..OutputCap :
          output = [i \in 1..k |-> QueuedEvent]
    /\ closed = FALSE
    /\ nread = 0
    /\ tasks = EmptyBag
    /\ callers = [c \in Calls |-> IdleCaller]
    /\ atPeer = {}
    /\ ctor = Constructed

ReadLoopReadQueue == ReadLoopReadFrom(QueueFrames)

SlowDrain == Len(output) > OutputCap - MaxTaken /\ Drain

QueueNext == ReadLoopReadQueue \/ TaskStep \/ CallerStep \/ SlowDrain

QueueSpec == QueueInit /\ [][QueueNext]_vars

\* ------------------------------------------------------ session construction
\* The lists of at most n instances.
RECURSIVE ServiceLists(_)
ServiceLists(n) ==
    IF n = 0 THEN {<<>>}
    ELSE ServiceLists(n - 1)
         \cup {Append(l, x) : l \in {m \in ServiceLists(n - 1) : Len(m) = n - 1},
                              x \in InstanceValues}

\* newWsJsonClient is called with a list of services; the client it builds
\* has a fresh manager, an empty pending-call table and an empty queue.
NewClientInit ==
    /\ services = <<>>
    /\ lastEvent = ""
    /\ pendingResults = <<>>
    /\ idSeq = IdSeqFirst
    /\ output = <<>>
    /\ closed = FALSE
    /\ nread = 0
    /\ tasks = EmptyBag
    /\ callers = [c \in Calls |-> IdleCaller]
    /\ atPeer = {}
    /\ \E l \in ServiceLists(MaxServices) :
          ctor = [pc |-> "start", list |-> l, given |-> l, err |-> <<>>]

\* if len(services) == 0 { return nil, errors.New(...) }
NewClientCheck ==
    /\ ctor.pc = "start"
    /\ ctor' = IF ctor.list = <<>>
               THEN [ctor EXCEPT !.pc = "failed",
                                 !.err = <<MethodError("At least one service is required", <<>>)>>]
               ELSE [ctor EXCEPT !.pc = "adding"]
    /\ UNCHANGED <<services, lastEvent, pendingResults, idSeq, output, closed,
                   nread, tasks, callers, atPeer>>

\* One turn of the loop over the services: addService, and return nil, err
\* when it fails.
NewClientAdd ==
    /\ ctor.pc = "adding"
    /\ ctor.list # <<>>
    /\ \E r \in addService(services, Head(ctor.list)) :
       /\ services' = r.services
       /\ ctor' = IF r.panic THEN [ctor EXCEPT !.pc = "panicked"]
                  ELSE IF r.err # <<>> THEN [ctor EXCEPT !.pc = "failed", !.err = r.err]
                  ELSE [ctor EXCEPT !.list = Tail(ctor.list)]
    /\ UNCHANGED <<lastEvent, pendingResults, idSeq, output, closed, nread,
                   tasks, callers, atPeer>>

\* return client, nil
NewClientReturn ==
    /\ ctor.pc = "adding"
    /\ ctor.list = <<>>
    /\ ctor' = [ctor EXCEPT !.pc = "returned"]
    /\ UNCHANGED <<services, lastEvent, pendingResults, idSeq, output, closed,
                   nread, tasks, callers, atPeer>>

NewClientNext == NewClientCheck \/ NewClientAdd \/ NewClientReturn

NewClientSpec == NewClientInit /\ [][NewClientNext]_vars

\* ------------------------------------------- one message, every frame shape
\* The method names of inbound frames: the registered methods, names of no
\* registered method, and names that do not split into two parts.
MethodNames ==
    {<<"S", ".", "E">>, <<"S", ".", "V">>, <<"S", ".", "L">>, <<"S", ".", "O">>,
     <<"S", ".", "A">>, <<"S", ".", "P">>, <<"S", ".", "N">>, <<"T", ".", "W">>,
     <<"S", ".", "x">>, <<"X", ".", "E">>, <<"x">>, <<>>,
     <<"S", ".", "E", ".", "x">>, <<".", "E">>, <<"S", ".">>}

ParamsValues ==
    {JAbsent, JNull, JInt, JObj, JObjBad, JArr(<<>>), JArr(<<"str">>),
     JArr(<<"int">>), JArr(<<"null">>), JArr(<<"obj">>), JArr(<<"str", "str">>)}

ResultValues == {JAbsent, JNull, JObj}

IdValues == {AbsentId, NullId, StrId, NumId(2), NumId(3), NumId(4)}

\* Every inbound message: the JSON objects with every combination of the
\* fields above, the messages Decode does not take for an object, and the
\* error frames of the peer (an error member and an id, no method, params or
\* result).
AllFrames ==
    {Frame("ok", v, m, p, r, i) :
        v \in {JSONRPCVersion, "1.0"}, m \in MethodNames, p \in ParamsValues,
        r \in ResultValues, i \in IdValues}
    \cup {Frame(syn, "", <<>>, JAbsent, JAbsent, AbsentId) :
            syn \in {"garbage", "nonobject", "badfield", "jsonnull"}}
    \cup {Frame("witherror", JSONRPCVersion, <<>>, JAbsent, JAbsent, i) : i \in IdValues}

\* The id the k-th CallMethod of a session draws, and the pending-call table
\* after the first k calls have registered their slots.
RECURSIVE DrawnId(_)
DrawnId(k) == IF k = 1 THEN IdSeqFirst ELSE idSeqAfterSend(DrawnId(k - 1))

RECURSIVE PendingAfter(_)
PendingAfter(k) ==
    IF k = 0 THEN <<>> ELSE addPendingResult(PendingAfter(k - 1), DrawnId(k), k)

\* The session after k CallMethod invocations have returned and their
\* requests have gone to the peer, at the moment the read loop has started a
\* goroutine for one message.
FrameInit ==
    /\ services = Registry
    /\ lastEvent = ""
    /\ output = <<>>
    /\ closed = FALSE
    /\ nread = 1
    /\ \E w \in AllFrames : tasks = SetToBag({NewTask(w)})
    /\ \E k \in 0..MaxCalls :
          /\ pendingResults = PendingAfter(k)
          /\ idSeq = IF k = 0 THEN IdSeqFirst ELSE idSeqAfterSend(DrawnId(k))
          /\ callers = [c \in Calls |->
                IF c <= k
                THEN [pc |-> "await", isMethod |-> TRUE, id |-> DrawnId(c),
                      ch |-> "open", got |-> <<>>, late |-> FALSE]
                ELSE IdleCaller]
          /\ atPeer = 1..k
    /\ ctor = Constructed

FrameNext == TaskStep \/ (\E c \in Calls : SeeClosed(c)) \/ Drain

FrameSpec == FrameInit /\ [][FrameNext]_vars

\* ------------------------------------------------------------------ claims
Running == BagToSet(tasks)

\* The goroutines whose handleMessage has returned.
Returned == {tk \in Running : tk.pc = "respond"}

\* A version-2.0 frame without a result: handleMessage routes it to
\* handleRequest.
IsRequestFrame(w) ==
    w.syn = "ok" /\ w.jsonrpc = JSONRPCVersion /\ w.result = JAbsent

\* The frame names a registered method that is an event (isEvent) or a call.
NamesMethod(w, isEvent) ==
    LET gm == getMethod(services, w.method) IN
    gm.method # <<>> /\ gm.method[1].isEvent = isEvent

ParamsDecode(w) ==
    decodeParams(getMethod(services, w.method).method[1], RawMessage(w.params)).ok

\* C1: a version-2.0 frame with no result, an id, and the name of a registered
\* non-event method whose params decode gets exactly one response, and the
\* response carries the id of the frame, whatever the handler returns.
C1_OneResponseSameId ==
    \A tk \in Returned :
        (/\ IsRequestFrame(tk.msg)
         /\ tk.msg.id.k \in {"num", "str"}
         /\ NamesMethod(tk.msg, FALSE)
         /\ ParamsDecode(tk.msg))
        => (tk.resp # <<>> /\ tk.resp[1].Id = DecodeId(tk.msg.id))

\* C2: the id sequence never hands out an id that is still a key of the
\* pending-call table: a call that has drawn its id and has yet to register
\* its slot holds an id the table does not have.
C2_IdNotInTable ==
    \A c \in Calls :
        callers[c].pc = "register" => callers[c].id \notin DOMAIN pendingResults

\* C3: what a caller receives on its slot is the result of an inbound frame
\* that carries the id of the caller's own request, and that frame is not the
\* peer's answer to the request of another call.
C3_OwnResult ==
    \A c \in Calls :
        \A i \in 1..Len(callers[c].got) :
            /\ callers[c].got[i].id = NumId(2 * callers[c].id)
            /\ callers[c].got[i].re \in {0, c}

\* The calls whose CallMethod has returned a slot, and those of them the peer
\* has answered (the request has left the output queue and the answer has
\* been read).
Issued == {c \in Calls : callers[c].isMethod /\ callers[c].pc \in {"await", "closed"}}

InOutput(c) ==
    \E i \in 1..Len(output) : output[i].kind = "request" /\ output[i].by = c

Answered(c) == ~InOutput(c) /\ c \notin atPeer

\* C4: when the peer has sent one result frame with the emitted id for each
\* outstanding call and every goroutine handling them has returned, every
\* caller has received exactly one value and its slot is closed.
C4_EveryCallerServed ==
    (tasks = EmptyBag /\ \A c \in Issued : Answered(c))
    => \A c \in Issued : Len(callers[c].got) = 1 /\ callers[c].ch = "closed"

\* C5: registering the slot of a call adds exactly one entry to the
\* pending-call table, and handling the peer's answer to a call removes
\* exactly the entry of that call.
C5_TableSize ==
    [][/\ \A c \in Calls :
            (callers[c].pc = "register" /\ callers'[c].pc = "enqueue")
            => Cardinality(DOMAIN pendingResults')
                 = Cardinality(DOMAIN pendingResults) + 1
       /\ \A tk \in Running :
            (tk.pc = "handle" /\ tk.msg.re # 0 /\ pendingResults' # pendingResults)
            => \E id \in DOMAIN pendingResults :
                  /\ pendingResults[id] = tk.msg.re
                  /\ pendingResults' = removePendingResult(pendingResults, id).pending
      ]_vars

\* C6: once the read loop has ended and the goroutines in flight have
\* returned, no entry is left in the pending-call table and the slot of every
\* call is closed (of the calls that registered their slot before the end).
C6_TeardownClosesSlots ==
    (closed /\ tasks = EmptyBag /\ \A c \in Calls : ~callers[c].late)
    => /\ DOMAIN pendingResults = {}
       /\ \A c \in Calls : callers[c].pc = "await" => callers[c].ch = "closed"

\* An inbound frame without id that names a registered event method.
IsEventFrame(w) ==
    IsRequestFrame(w) /\ w.id = AbsentId /\ NamesMethod(w, TRUE)

\* C7: for a frame without id that names a registered event method, the
\* handler is invoked and there is no response when the params decode;
\* the handler is not invoked and the one response is an INVALID_PARAMS
\* error with a null id when they do not.
C7_EventResponse ==
    \A tk \in Returned :
        IsEventFrame(tk.msg)
        => IF ParamsDecode(tk.msg)
           THEN tk.invoked /\ tk.resp = <<>>
           ELSE /\ ~tk.invoked
                /\ tk.resp # <<>>
                /\ tk.resp[1].Result = <<>>
                /\ tk.resp[1].Err # <<>>
                /\ tk.resp[1].Err[1].code = ErrorInvalidParams
                /\ tk.resp[1].Id = NilId

C7_Witness ==
    \E tk \in Returned :
        /\ IsEventFrame(tk.msg)
        /\ tk.msg.params = JArr(<<>>)
        /\ tk.resp # <<>>
        /\ tk.resp[1].Err[1].code = ErrorInvalidParams

\* A request frame without id whose method was invoked and returned no error.
SucceededWithoutId(tk) ==
    /\ IsRequestFrame(tk.msg)
    /\ tk.msg.id = AbsentId
    /\ tk.invoked
    /\ tk.ret[1].err = <<>>

\* C8 as stated: a request frame without id gets no response when the invoked
\* method succeeds, be it an event or a call.
C8_NoResponseWithoutId ==
    \A tk \in Returned : SucceededWithoutId(tk) => tk.resp = <<>>

\* C8 as amended: a request frame without id gets no response when the
\* invoked method is an event and succeeds; when it is a call that succeeds,
\* it gets exactly one response, which carries the result and a null id,
\* unless the result is a nil interface value: then it gets none.
C8_NoResponseForEvents ==
    \A tk \in Returned :
        SucceededWithoutId(tk)
        => IF NamesMethod(tk.msg, TRUE) \/ tk.ret[1].out = "nil"
           THEN tk.resp = <<>>
           ELSE tk.resp = <<[Version |-> JSONRPCVersion,
                             Result |-> <<tk.ret[1].out>>,
                             Err |-> <<>>, Id |-> NilId]>>

C8_Witness ==
    \E tk \in Returned :
        /\ SucceededWithoutId(tk)
        /\ NamesMethod(tk.msg, FALSE)
        /\ tk.resp # <<>>
        /\ tk.resp[1].Result = <<"v">>

\* The responses of the session: those handleMessage has returned and those
\* in the output queue.
Responses ==
    {tk.resp[1] : tk \in {x \in Running : x.resp # <<>>}}
    \cup {output[i].frame : i \in {j \in 1..Len(output) : output[j].kind = "response"}}

\* C9: no response carries both a result and an error.
C9_ResultOrError ==
    \A r \in Responses : ~(r.Result # <<>> /\ r.Err # <<>>)

\* The handler returned a value together with an error.
C9_Witness ==
    \E tk \in Returned :
        /\ tk.invoked
        /\ tk.ret[1].out = "v"
        /\ tk.ret[1].err # <<>>
        /\ tk.resp # <<>>
        /\ tk.resp[1].Err = tk.ret[1].err
        /\ tk.resp[1].Result = <<>>

Unparsable(w) == w.syn \in {"garbage", "nonobject", "badfield"}

ParseErrorResponse ==
    [Version |-> "2.0", Result |-> <<>>,
     Err |-> <<[typed |-> TRUE, code |-> -32700, message |-> "Parse Error",
                data |-> "nil"]>>,
     Id |-> NilId]

\* C10: handling a message that does not parse as a JSON frame yields exactly
\* the response with code -32700, message "Parse Error" and a null id, invokes
\* no handler and leaves the pending-call table as it was.
C10_ParseError ==
    [][\A tk \in Running :
          (tk.pc = "handle" /\ Unparsable(tk.msg) /\ tk \notin BagToSet(tasks'))
          => /\ tasks' = Replace(tasks, tk,
                    [tk EXCEPT !.pc = "respond", !.resp = <<ParseErrorResponse>>])
             /\ pendingResults' = pendingResults
             /\ lastEvent' = lastEvent
      ]_vars

C10_Witness ==
    \E tk \in Returned :
        /\ Unparsable(tk.msg)
        /\ tk.resp = <<ParseErrorResponse>>
        /\ ~tk.invoked
        /\ pendingResults # <<>>

\* The INVALID_REQUEST response with a message and an id.
InvalidRequestResponse(message, id) ==
    [Version |-> "2.0", Result |-> <<>>,
     Err |-> <<[typed |-> TRUE, code |-> -32600, message |-> message,
                data |-> "nil"]>>,
     Id |-> id]

\* The step of goroutine tk in which handleMessage returns resp and nothing
\* else happens: no slot is taken from the pending-call table, no service
\* method runs, no caller receives a value.
ReturnsOnly(tk, resp) ==
    /\ tasks' = Replace(tasks, tk, [tk EXCEPT !.pc = "respond", !.resp = resp])
    /\ pendingResults' = pendingResults
    /\ lastEvent' = lastEvent
    /\ callers' = callers
    /\ output' = output

\* A message that parses and whose version is not "2.0".
WrongVersion(w) == w.syn \in {"ok", "jsonnull"} /\ Decode(w).request.Version # "2.0"

\* C11: handling a parsed frame whose version is not "2.0" returns the
\* INVALID_REQUEST response "Invalid JSONRPC Version" with the id of the
\* frame; no service method is invoked and the pending-call table is left as
\* it was, also when the frame has a result and the id of a pending call.
C11_InvalidVersion ==
    [][\A tk \in Running :
          (tk.pc = "handle" /\ WrongVersion(tk.msg) /\ tk \notin BagToSet(tasks'))
          => ReturnsOnly(tk, <<InvalidRequestResponse("Invalid JSONRPC Version",
                                                      DecodeId(tk.msg.id))>>)
      ]_vars

\* A version-1.0 result frame with the id of a pending call has been answered
\* and the entry of the call is still there.
C11_Witness ==
    \E tk \in Returned :
        /\ WrongVersion(tk.msg)
        /\ tk.msg.result = JObj
        /\ tk.msg.params = JAbsent
        /\ tk.msg.id = NumId(2)
        /\ 1 \in DOMAIN pendingResults
        /\ tk.resp # <<>>
        /\ tk.resp[1].Err[1].code = ErrorInvalidRequest
        /\ tk.resp[1].Id = [k |-> "float64", h |-> 2]

\* A version-2.0 frame with the keys params and result.
HasParamsAndResult(w) ==
    /\ w.syn = "ok"
    /\ w.jsonrpc = JSONRPCVersion
    /\ w.params # JAbsent
    /\ w.result # JAbsent

\* C12: handling a version-2.0 frame that has both params and result returns
\* the INVALID_REQUEST response with the id of the frame; the frame is
\* neither dispatched to a service method nor delivered to a slot, and the
\* pending-call table is left as it was, also when the id is that of a
\* pending call.
C12_ParamsAndResult ==
    [][\A tk \in Running :
          (tk.pc = "handle" /\ HasParamsAndResult(tk.msg) /\ tk \notin BagToSet(tasks'))
          => ReturnsOnly(tk,
                 <<InvalidRequestResponse(
                       "Message can't have both 'params' and 'result' present",
                       DecodeId(tk.msg.id))>>)
      ]_vars

C12_Witness ==
    \E tk \in Returned :
        /\ HasParamsAndResult(tk.msg)
        /\ tk.msg.method = <<"S", ".", "V">>
        /\ tk.msg.params = JArr(<<"str">>)
        /\ tk.msg.id = NumId(2)
        /\ 1 \in DOMAIN pendingResults
        /\ lastEvent = ""
        /\ tk.resp # <<>>
        /\ tk.resp[1].Err[1].code = ErrorInvalidRequest

\* A version-2.0 frame with a result and no params: handleMessage routes it
\* to handleResult.
IsResultFrame(w) ==
    /\ w.syn = "ok"
    /\ w.jsonrpc = JSONRPCVersion
    /\ w.params = JAbsent
    /\ w.result # JAbsent

\* The id of the frame is absent or null, is not a number, or is an integer
\* that is no key of the pending-call table.
Uncorrelated(w) ==
    \/ w.id.k \in {"absent", "null", "str"}
    \/ w.id.k = "num" /\ w.id.h % 2 = 0 /\ (w.id.h \div 2) \notin DOMAIN pendingResults

\* C13: a result frame whose id is absent or null, is not a number, or is an
\* integer without an entry in the pending-call table is dropped: the step
\* returns no response and only writes a log line; no slot is written or
\* closed and the pending-call table is left as it was.
C13_ResultDropped ==
    [][\A tk \in Running :
          (/\ tk.pc = "handle"
           /\ IsResultFrame(tk.msg)
           /\ Uncorrelated(tk.msg)
           /\ tk \notin BagToSet(tasks'))
          => /\ \E line \in {"Result with null id received",
                             "Result id must be an integer",
                             "No previous request found for result.id"} :
                   tasks' = Replace(tasks, tk, [tk EXCEPT !.pc = "respond", !.log = line])
             /\ pendingResults' = pendingResults
             /\ callers' = callers
             /\ lastEvent' = lastEvent
             /\ output' = output
      ]_vars

\* A result with the id 2 was dropped while the call with the id 1 waits.
C13_Witness ==
    \E tk \in Returned :
        /\ IsResultFrame(tk.msg)
        /\ tk.msg.id = NumId(4)
        /\ tk.resp = <<>>
        /\ tk.log = "No previous request found for result.id"
        /\ 1 \in DOMAIN pendingResults
        /\ callers[pendingResults[1]].pc = "await"
        /\ callers[pendingResults[1]].got = <<>>
        /\ callers[pendingResults[1]].ch = "open"

\* C14: when json.Marshal of the params fails, CallMethod returns no slot and
\* has no effect: the step draws no id, adds no entry to the pending-call
\* table and enqueues no frame, and the invocation does nothing afterwards.
C14_MarshalFailure ==
    [][\A c \in Calls :
          /\ (callers[c].pc = "idle" /\ callers'[c].pc = "failed")
             => /\ callers'[c].ch = "none"
                /\ callers'[c].id = callers[c].id
                /\ idSeq' = idSeq
                /\ pendingResults' = pendingResults
                /\ output' = output
          /\ callers[c].pc = "failed" => callers'[c] = callers[c]
      ]_vars

\* The first CallMethod failed to marshal, the second one went through: the
\* table has the entry of the second call only and the queue its request.
C14_Witness ==
    /\ callers[1].pc = "failed"
    /\ callers[1].isMethod
    /\ callers[1].ch = "none"
    /\ callers[2].pc = "await"
    /\ pendingResults = (IdSeqFirst :> 2)
    /\ Len(output) = 1
    /\ output[1].by = 2

\* The request frame of an event: version "2.0", the method and the
\* marshalled params of the invocation, and no id.
EventRequest ==
    [Version |-> "2.0", Method |-> "someMethod", Params |-> <<JObj>>, Id |-> NilId]

\* C15: SendEvent with params that marshal appends exactly one request frame
\* without id to the output queue, in one step, and then returns; none of its
\* steps draws an id or changes the pending-call table, and it holds no slot.
C15_SendEvent ==
    [][\A c \in Calls :
          /\ (callers[c].pc = "idle" /\ callers'[c].pc = "enqueue")
             => /\ ~callers'[c].isMethod
                /\ UNCHANGED <<idSeq, pendingResults, output>>
          /\ (/\ callers[c].pc = "enqueue"
              /\ ~callers[c].isMethod
              /\ callers'[c] # callers[c])
             => /\ callers'[c] = [callers[c] EXCEPT !.pc = "sent"]
                /\ callers[c].id = 0
                /\ callers[c].ch = "none"
                /\ output' = Append(output, [kind |-> "request",
                                             frame |-> EventRequest, by |-> c])
                /\ UNCHANGED <<idSeq, pendingResults>>
          /\ callers[c].pc = "sent" => callers'[c] = callers[c]
      ]_vars

\* SendEvent has returned while a call is pending: the queue holds the
\* request of the call and then the frame of the event, and the table has the
\* entry of the call only.
C15_Witness ==
    /\ callers[1].pc = "await"
    /\ ~callers[2].isMethod
    /\ callers[2].pc = "sent"
    /\ Len(output) = 2
    /\ output[2] = [kind |-> "request", frame |-> EventRequest, by |-> 2]
    /\ pendingResults = (IdSeqFirst :> 1)

\* The goroutines whose handleMessage invoked a handler that returned an
\* error which is (typed) or is not a *Error.
ReturnedError(typed) ==
    {tk \in Returned :
        tk.invoked /\ tk.ret[1].err # <<>> /\ tk.ret[1].err[1].typed = typed}

\* C16: when the handler returns a *Error, the response is the error frame
\* with the code, the message and the data of that error, no result, and the
\* id of the request.
C16_TypedError ==
    \A tk \in ReturnedError(TRUE) :
        tk.resp = <<[Version |-> "2.0", Result |-> <<>>,
                     Err |-> <<[typed |-> TRUE,
                                code |-> tk.ret[1].err[1].code,
                                message |-> tk.ret[1].err[1].message,
                                data |-> tk.ret[1].err[1].data]>>,
                     Id |-> DecodeId(tk.msg.id)]>>

\* The handler returned the error 101 with data for a request with the id 2.
C16_Witness ==
    \E tk \in ReturnedError(TRUE) :
        /\ tk.msg.id = NumId(4)
        /\ tk.ret[1].err[1].code = 101
        /\ tk.resp # <<>>
        /\ tk.resp[1].Err[1].data = "AllTypes"
        /\ tk.resp[1].Id = [k |-> "float64", h |-> 4]

\* C17: when the handler returns an error that is no *Error, the response is
\* the error frame with the code -32603, the text of the error as message, no
\* result, and the id of the request.
C17_InternalError ==
    \A tk \in ReturnedError(FALSE) :
        tk.resp = <<[Version |-> "2.0", Result |-> <<>>,
                     Err |-> <<[typed |-> TRUE, code |-> -32603,
                                message |-> tk.ret[1].err[1].message,
                                data |-> "nil"]>>,
                     Id |-> DecodeId(tk.msg.id)]>>

\* The positions of the dots of a name, and the parts of a name with one dot.
Dots(name) == {i \in 1..Len(name) : name[i] = "."}

ServicePart(name) == SubSeq(name, 1, (CHOOSE i \in Dots(name) : TRUE) - 1)

MethodPart(name) == SubSeq(name, (CHOOSE i \in Dots(name) : TRUE) + 1, Len(name))

\* The name does not split on "." into exactly two parts, or its service part
\* is not registered, or the service does not expose its method part.
NoSuchMethod(name) ==
    \/ Cardinality(Dots(name)) # 1
    \/ /\ Cardinality(Dots(name)) = 1
       /\ \/ ServicePart(name) \notin DOMAIN services
          \/ /\ ServicePart(name) \in DOMAIN services
             /\ MethodPart(name) \notin DOMAIN services[ServicePart(name)].methods

\* C18: a request whose method name does not split on "." into exactly two
\* parts, names a service that is not registered, or names a method the
\* service does not expose, gets an error response with the code -32601 and
\* the id of the request, and no handler is invoked.
C18_MethodNotFound ==
    \A tk \in Returned :
        (IsRequestFrame(tk.msg) /\ NoSuchMethod(tk.msg.method))
        => /\ ~tk.invoked
           /\ lastEvent = ""
           /\ tk.resp # <<>>
           /\ tk.resp[1].Result = <<>>
           /\ tk.resp[1].Err # <<>>
           /\ tk.resp[1].Err[1].code = -32601
           /\ tk.resp[1].Id = DecodeId(tk.msg.id)

\* A request for S.E.x, whose first two parts name a registered method, was
\* answered with METHOD_NOT_FOUND.
C18_Witness ==
    \E tk \in Returned :
        /\ IsRequestFrame(tk.msg)
        /\ tk.msg.method = <<"S", ".", "E", ".", "x">>
        /\ tk.msg.params = JArr(<<"str">>)
        /\ tk.msg.id = NumId(4)
        /\ tk.resp # <<>>
        /\ tk.resp[1].Err[1].code = ErrorMethodNotFound
        /\ tk.resp[1].Err[1].message = "Invalid method name"
        /\ tk.resp[1].Id = [k |-> "float64", h |-> 4]

\* The registered method a request names (the name has one dot and both
\* parts are known).
NamedMethod(w) == services[ServicePart(w.method)].methods[MethodPart(w.method)]

\* The method is decoded by the array rule: it is not a method whose only
\* argument is a struct or a pointer to a struct.
ArrayRule(am) ==
    ~(Len(am.argTypes) = 1 /\ am.argTypes[1] \in {"struct", "*struct"})

\* A request for a registered method of the array rule whose params are an
\* array of another length than the method has arguments.
WrongArgumentCount(w) ==
    /\ IsRequestFrame(w)
    /\ ~NoSuchMethod(w.method)
    /\ ArrayRule(NamedMethod(w))
    /\ w.params.t = "arr"
    /\ Len(w.params.e) # Len(NamedMethod(w).argTypes)

\* C19: for a method of the array rule, call or event, a params array whose
\* length is not the number of arguments of the method gets the
\* INVALID_PARAMS response "Wrong number of arguments" with the id of the
\* request; the handler is not invoked and the service state is unchanged.
C19_WrongArgumentCount ==
    \A tk \in Returned :
        WrongArgumentCount(tk.msg)
        => /\ ~tk.invoked
           /\ lastEvent = ""
           /\ tk.resp = <<[Version |-> "2.0", Result |-> <<>>,
                           Err |-> <<[typed |-> TRUE, code |-> -32602,
                                      message |-> "Wrong number of arguments",
                                      data |-> "nil"]>>,
                           Id |-> DecodeId(tk.msg.id)]>>

\* The event S.V, which takes one argument, was sent two.
C19_Witness ==
    \E tk \in Returned :
        /\ WrongArgumentCount(tk.msg)
        /\ tk.msg.method = <<"S", ".", "V">>
        /\ tk.msg.params = JArr(<<"str", "str">>)
        /\ lastEvent = ""
        /\ tk.resp # <<>>
        /\ tk.resp[1].Err[1].message = "Wrong number of arguments"

\* A request for a registered method without arguments whose params are
\* absent, null or the empty array.
NoArguments(w) ==
    /\ IsRequestFrame(w)
    /\ ~NoSuchMethod(w.method)
    /\ NamedMethod(w).argTypes = <<>>
    /\ w.params \in {JAbsent, JNull, JArr(<<>>)}

\* C20: for a method without arguments, a request with params absent, with
\* params null and with params [] has the same outcome, which depends on
\* what the handler returns only: the handler is invoked, and the response
\* carries the value it returned (its error, if it returned one) and the id
\* of the request.
C20_NoArguments ==
    \A tk \in Returned :
        NoArguments(tk.msg)
        => /\ tk.invoked
           /\ tk.resp # <<>>
           /\ tk.resp[1].Id = DecodeId(tk.msg.id)
           /\ IF tk.ret[1].err = <<>>
              THEN tk.resp[1].Result = <<tk.ret[1].out>> /\ tk.resp[1].Err = <<>>
              ELSE /\ tk.resp[1].Result = <<>>
                   /\ tk.resp[1].Err # <<>>
                   /\ tk.resp[1].Err[1].code =
                         IF tk.ret[1].err[1].typed THEN tk.ret[1].err[1].code
                         ELSE -32603

\* The name addService derives for an instance, and the methods the instance
\* exposes: those its WsMethods mapping names, or those with the prefix.
DerivedName(x) == IF x.wsName # <<>> THEN x.wsName ELSE x.typeName

Exposed(x) ==
    IF x.wsMethods # <<>>
    THEN {m \in x.methods : \E pr \in x.wsMethods[1] : pr[2] = m.name}
    ELSE {m \in x.methods :
            HasPrefix(m.name, IF x.wsPrefix # <<>> THEN x.wsPrefix[1] ELSE <<"A", "p", "i">>)}

\* A method is valid: exported, with 0 outputs, or with 2 of which the last
\* is the error type.
ValidMethod(m) ==
    /\ m.exported
    /\ \/ Len(m.outs) = 0
       \/ Len(m.outs) = 2 /\ m.outs[2] = "error"

\* An instance passes validation: it is not nil, its name is not empty, it
\* exposes at least one method, every name of its mapping is a method, and
\* every method it exposes is valid.
ValidInstance(x) ==
    /\ x.nil = "no"
    /\ DerivedName(x) # <<>>
    /\ Exposed(x) # {}
    /\ x.wsMethods # <<>> =>
          \A pr \in x.wsMethods[1] : \E m \in x.methods : m.name = pr[2]
    /\ \A m \in Exposed(x) : ValidMethod(m)

\* C21: newWsJsonClient returns a session only for a list that is not empty
\* and whose instances all pass validation; for every other list it returns
\* an error (it does not end in any other way), and an addService that fails
\* leaves the service map as it was.
C21_AllOrNothing ==
    [][/\ ctor'.pc = "returned"
          => /\ ctor.given # <<>>
             /\ \A i \in 1..Len(ctor.given) : ValidInstance(ctor.given[i])
       /\ ctor'.pc \in {"start", "adding", "returned", "failed"}
       /\ (ctor.pc = "adding" /\ ctor'.pc = "failed") => services' = services
      ]_vars

\* C22: adding a service whose derived name is the name of a service already
\* in the registry fails with an error and leaves the registry as it was: the
\* first service stays registered.
C22_DuplicateRejected ==
    [][(/\ ctor.pc = "adding"
        /\ ctor.list # <<>>
        /\ Head(ctor.list).nil = "no"
        /\ DerivedName(Head(ctor.list)) \in DOMAIN services)
       => /\ ctor'.pc = "failed"
          /\ services' = services
      ]_vars

\* The goroutines that have taken the slot of call c from the table and have
\* yet to close it.
Holders(c) == {tk \in Running : tk.ch = <<c>> /\ tk.pc \in {"deliver", "close"}}

\* C23: a slot is resolved at most once: at most one goroutine ever obtains
\* the slot of a call from the table, so the slot receives at most one value
\* and, once it is closed, no goroutine holds it to write or close it again.
C23_ResolvedOnce ==
    \A c \in Calls :
        /\ Len(callers[c].got) <= 1
        /\ Cardinality(Holders(c)) <= 1
        /\ \A tk \in Holders(c) : CopiesIn(tk, tasks) = 1
        /\ callers[c].ch = "closed" => Holders(c) = {}
        /\ (Len(callers[c].got) = 1 /\ callers[c].ch = "open")
           => \A tk \in Holders(c) : tk.pc = "close"

\* Two result frames with the id 1 are handled at once: one goroutine has
\* delivered to the slot of the call, the other found no entry.
C23_Witness ==
    \E tk \in Running, other \in Running :
        /\ tk.pc = "close"
        /\ tk.msg.id = NumId(2)
        /\ other.pc = "respond"
        /\ other.msg.id = NumId(2)
        /\ other.log = "No previous request found for result.id"
        /\ Len(callers[tk.ch[1]].got) = 1

\* C24: at the moment the request of a call is put on the outbound queue, the
\* id of the request is registered: the pending-call table has an entry under
\* it.
C24_RegisteredWhenEnqueued ==
    [][\A c \in Calls :
          (/\ callers[c].isMethod
           /\ callers[c].pc = "enqueue"
           /\ callers'[c].pc = "await")
          => callers[c].id \in DOMAIN pendingResults
      ]_vars

\* The id of the frame is a JSON number that is no integer.
NonIntegerId(w) == w.id.k = "num" /\ w.id.h % 2 = 1

\* C25: a result frame whose id is a number that is no integer is dropped:
\* the step returns no response and only writes the log line "Result id must
\* be an integer"; no slot is taken from the pending-call table, in particular
\* not the slot under the truncated id, and no goroutine goes on to deliver.
C25_NonIntegerDropped ==
    [][\A tk \in Running :
          (/\ tk.pc = "handle"
           /\ IsResultFrame(tk.msg)
           /\ NonIntegerId(tk.msg)
           /\ tk \notin BagToSet(tasks'))
          => /\ tasks' = Replace(tasks, tk,
                    [tk EXCEPT !.pc = "respond",
                               !.log = "Result id must be an integer"])
             /\ pendingResults' = pendingResults
             /\ callers' = callers
      ]_vars

\* The name splits on "." into two parts of which at least one is empty.
EmptyPart(name) ==
    /\ Cardinality(Dots(name)) = 1
    /\ ServicePart(name) = <<>> \/ MethodPart(name) = <<>>

\* C26: a request whose method name splits into two parts of which one is
\* empty is rejected as an invalid name: the response is the METHOD_NOT_FOUND
\* error with the message "Invalid method name" and the id of the request, and
\* no handler is invoked.
C26_EmptyPartInvalid ==
    \A tk \in Returned :
        (IsRequestFrame(tk.msg) /\ EmptyPart(tk.msg.method))
        => /\ ~tk.invoked
           /\ tk.resp = <<[Version |-> "2.0", Result |-> <<>>,
                           Err |-> <<[typed |-> TRUE, code |-> -32601,
                                      message |-> "Invalid method name",
                                      data |-> "nil"]>>,
                           Id |-> DecodeId(tk.msg.id)]>>

\* A request for a registered method whose params are null or omitted.
NullOrOmitted(w) ==
    /\ IsRequestFrame(w)
    /\ ~NoSuchMethod(w.method)
    /\ w.params \in {JAbsent, JNull}

\* C27: for every registered method a request with params null has the
\* outcome of the request with params omitted: the handler of a method
\* without arguments is invoked; for a method with one or more arguments,
\* the methods whose only argument is a struct or a pointer to one included,
\* the handler is not invoked and the response is an INVALID_PARAMS error
\* with the id of the request.
C27_NullIsOmitted ==
    \A tk \in Returned :
        NullOrOmitted(tk.msg)
        => IF NamedMethod(tk.msg).argTypes = <<>>
           THEN tk.invoked
           ELSE /\ ~tk.invoked
                /\ tk.resp # <<>>
                /\ tk.resp[1].Result = <<>>
                /\ tk.resp[1].Err # <<>>
                /\ tk.resp[1].Err[1].code = -32602
                /\ tk.resp[1].Id = DecodeId(tk.msg.id)

\* A request for a registered method whose only argument is a struct or a
\* pointer to one.
StructMethod(w) ==
    /\ IsRequestFrame(w)
    /\ ~NoSuchMethod(w.method)
    /\ ~ArrayRule(NamedMethod(w))

\* The INVALID_PARAMS response with a message to the request of tk.
InvalidParams(tk, message) ==
    <<[Version |-> "2.0", Result |-> <<>>,
       Err |-> <<[typed |-> TRUE, code |-> -32602, message |-> message,
                  data |-> "nil"]>>,
       Id |-> DecodeId(tk.msg.id)]>>

\* C28 as stated: for a method whose only argument is a struct, a params
\* array is decoded by the array rule: an array of one object invokes the
\* handler, an array of another length gets "Wrong number of arguments".
C28_ArrayRuleForStruct ==
    \A tk \in Returned :
        (StructMethod(tk.msg) /\ tk.msg.params.t = "arr")
        => IF Len(tk.msg.params.e) # 1
           THEN ~tk.invoked /\ tk.resp = InvalidParams(tk, "Wrong number of arguments")
           ELSE tk.msg.params.e[1] = "obj" => tk.invoked

\* C28 as amended: for a method whose only argument is a struct, a params
\* array is decoded by the object rule like every other params value: an
\* array of any length, the array of one object included, gets "Params must
\* be an object" and the handler is not invoked.
C28_ObjectRuleForArrays ==
    \A tk \in Returned :
        (StructMethod(tk.msg) /\ tk.msg.params.t = "arr")
        => ~tk.invoked /\ tk.resp = InvalidParams(tk, "Params must be an object")

\* S.O was sent an array of one object.
C28_Witness ==
    \E tk \in Returned :
        /\ StructMethod(tk.msg)
        /\ tk.msg.method = <<"S", ".", "O">>
        /\ tk.msg.params = JArr(<<"obj">>)
        /\ ~tk.invoked
        /\ tk.resp = InvalidParams(tk, "Params must be an object")

\* C29: a request for a method whose only argument is a struct gets
\* INVALID_PARAMS "Params must be an object" without the handler being
\* invoked when its params value is not a JSON object, and has its handler
\* invoked when its params value is a JSON object.
C29_ObjectOrInvalidParams ==
    \A tk \in Returned :
        (StructMethod(tk.msg) /\ tk.msg.params.t # "absent")
        => IF tk.msg.params.t \in {"obj", "objbad"}
           THEN tk.invoked
           ELSE ~tk.invoked /\ tk.resp = InvalidParams(tk, "Params must be an object")

\* The outputs of a method are those of an event or of a call.
ValidOutputs(m) ==
    \/ Len(m.outs) = 0
    \/ Len(m.outs) = 2 /\ m.outs[2] = "error"

\* The pairs <<exposed name, method>> of the methods an instance exposes.
ExposedPairs(x) ==
    IF x.wsMethods # <<>>
    THEN {q \in {pr[1] : pr \in x.wsMethods[1]} \X x.methods :
             <<q[1], q[2].name>> \in x.wsMethods[1]}
    ELSE {<<TrimPrefix(m.name, IF x.wsPrefix # <<>> THEN x.wsPrefix[1]
                               ELSE <<"A", "p", "i">>), m>> : m \in Exposed(x)}

\* The instance a registered service was made from: the last instance of
\* that name among those the constructor has added.
Origin(n) ==
    LET done == Len(ctor.given) - Len(ctor.list)
        i == CHOOSE j \in 1..done :
                 /\ DerivedName(ctor.given[j]) = n
                 /\ \A k \in (j + 1)..done : DerivedName(ctor.given[k]) # n
    IN ctor.given[i]

\* Every registered descriptor is that of an exposed method with 0 outputs
\* or with 2 outputs of which the last is the error type, and is an event
\* exactly when the method has no outputs.
RegistryValid ==
    \A n \in DOMAIN services :
        \A k \in DOMAIN services[n].methods :
            \E pr \in ExposedPairs(Origin(n)) :
                /\ pr[1] = k
                /\ ValidOutputs(pr[2])
                /\ services[n].methods[k].isEvent = (Len(pr[2].outs) = 0)
                /\ services[n].methods[k].argTypes = pr[2].argTypes

\* C30: the registry holds only descriptors of methods with 0 outputs or 2
\* outputs ending in the error type, each an event exactly when its method
\* has no outputs; and adding a service that exposes, by prefix or by
\* mapping, a method with other outputs fails and registers nothing.
C30_RegistryInvariant ==
    [][/\ RegistryValid'
       /\ (/\ ctor.pc = "adding"
           /\ ctor.list # <<>>
           /\ Head(ctor.list).nil = "no"
           /\ \E m \in Exposed(Head(ctor.list)) : ~ValidOutputs(m))
          => /\ ctor'.pc = "failed"
             /\ services' = services
      ]_vars

\* S was registered, with its event V and its call E, and the next service,
\* which exposes a valid method and one with three outputs, was rejected.
C30_Witness ==
    /\ ctor.pc = "failed"
    /\ Len(ctor.given) = 2
    /\ ctor.given[1] = ServiceS
    /\ ctor.list # <<>>
    /\ ThreeOutputs \in Exposed(Head(ctor.list))
    /\ ApiOk \in Exposed(Head(ctor.list))
    /\ DOMAIN services = {<<"S">>}
    /\ services[<<"S">>].methods[<<"V">>].isEvent
    /\ ~services[<<"S">>].methods[<<"E">>].isEvent

\* The number of registered services and the number of methods of a service.
numServices == Cardinality(DOMAIN services)

numMethods(n) == Cardinality(DOMAIN services[n].methods)

\* C31: once the session is constructed no step of it (reading a frame,
\* handling a request, an event, a result or a malformed message, a local
\* CallMethod or SendEvent, the writer taking a frame) changes the registry:
\* the service names and the methods of every service stay as they were.
C31_RegistryImmutable ==
    [][/\ services' = services
       /\ numServices' = numServices
       /\ \A n \in DOMAIN services : numMethods(n)' = numMethods(n)
      ]_vars

\* The registry is as constructed after an event handler has run, a request
\* has been answered, and a local call has been enqueued.
C31_Witness ==
    /\ services = Registry
    /\ nread = MaxMsgs
    /\ lastEvent = "event"
    /\ \E c \in Calls : callers[c].pc \in {"await", "sent"}
    /\ \E i \in 1..Len(output) : output[i].kind = "response"

\* C32: addService is deterministic: what adding an instance to a fresh
\* registry ends with (the error it returns, or the service it registers
\* with its methods, their argument types and isEvent flags) is what every
\* other addService of that instance on a fresh registry ends with.
C32_Deterministic ==
    [][(/\ ctor.pc = "adding"
        /\ ctor.list # <<>>
        /\ services = <<>>)
       => \A r \in addService(<<>>, Head(ctor.list)) :
             /\ r.panic = (ctor'.pc = "panicked")
             /\ r.err = (IF ctor'.pc = "failed" THEN ctor'.err ELSE <<>>)
             /\ r.services = services'
      ]_vars

\* C33: a frame that names a registered event method and whose handler was
\* invoked gets no response, with an id of any kind or without one; the
\* handler has run: the field it writes is written.
C33_EventNeverAnswered ==
    \A tk \in Returned :
        (/\ IsRequestFrame(tk.msg)
         /\ NamesMethod(tk.msg, TRUE)
         /\ tk.invoked)
        => /\ tk.resp = <<>>
           /\ tk.ret = <<[out |-> "none", err |-> <<>>]>>
           /\ lastEvent = "event"

\* An event frame with a numeric id was handled: the handler ran and no
\* response was made.
C33_Witness ==
    \E tk \in Returned :
        /\ IsRequestFrame(tk.msg)
        /\ NamesMethod(tk.msg, TRUE)
        /\ tk.msg.id.k = "num"
        /\ tk.invoked
        /\ tk.resp = <<>>
        /\ lastEvent = "event"

\* The queue is full.
Full == Len(output) = OutputCap

\* The goroutines that have a response to enqueue.
Responding == {tk \in Running : tk.pc = "respond" /\ tk.resp # <<>>}

\* The goroutines that have taken a slot and wait for the caller to receive.
Delivering == {tk \in Running : tk.pc = "deliver"}

\* C34: the read loop never waits for a handler: as long as the connection
\* is open it can read the next message, whatever the goroutines of earlier
\* messages are doing (running, blocked on the full queue, blocked on a
\* slot).
C34_ReaderNeverWaits ==
    (~closed /\ nread < MaxMsgs) => ENABLED ReadLoopReadQueue

\* All messages were read while one goroutine is blocked on a slot whose
\* caller is itself blocked on the full queue, and another is blocked with
\* its response on the full queue.
C34_Witness ==
    /\ nread = MaxMsgs
    /\ Full
    /\ Responding # {}
    /\ \E tk \in Delivering : callers[tk.ch[1]].pc = "enqueue"

\* C35: the output queue never holds more than OutputCap frames; a step
\* either leaves it, appends one frame to it, or takes its head; and while
\* it is full no producer completes: the callers that are to enqueue and the
\* goroutines that have a response stay where they are.
C35_QueueBounded ==
    [][/\ Len(output') <= OutputCap
       /\ \/ output' = output
          \/ output' = Tail(output) /\ output # <<>>
          \/ Len(output') = Len(output) + 1 /\ SubSeq(output', 1, Len(output)) = output
       /\ Full => /\ \A c \in Calls :
                        callers[c].pc = "enqueue" => callers'[c] = callers[c]
                  /\ \A tk \in Responding : CopiesIn(tk, tasks') >= CopiesIn(tk, tasks)
      ]_vars

\* The queue is full again: two responses went in behind the requests that
\* filled it, so the writer has taken a frame in between, and a caller is
\* waiting to enqueue.
C35_Witness ==
    /\ Full
    /\ output[OutputCap].kind = "response"
    /\ output[OutputCap - 1].kind = "response"
    /\ \E c \in Calls : callers[c].pc = "enqueue"

\* A version-2.0 frame with neither params nor result.
Bare(w) ==
    w.syn = "ok" /\ w.jsonrpc = JSONRPCVersion /\ w.params = JAbsent /\ w.result = JAbsent

\* C36: a version-2.0 frame with neither params nor result is not answered
\* with an invalid-request error and is not handled as a result; it is a
\* request without arguments: when it names a registered method without
\* arguments that method is invoked.
C36_BareFrameIsRequest ==
    \A tk \in Returned :
        Bare(tk.msg)
        => /\ ~(tk.resp # <<>> /\ tk.resp[1].Err # <<>>
                /\ tk.resp[1].Err[1].code = ErrorInvalidRequest)
           /\ tk.ch = <<>>
           /\ tk.log = ""
           /\ (~NoSuchMethod(tk.msg.method) /\ NamedMethod(tk.msg).argTypes = <<>>)
              => tk.invoked

\* S.L, which takes no arguments, was requested without params and its
\* result was returned.
C36_Witness ==
    \E tk \in Returned :
        /\ Bare(tk.msg)
        /\ tk.msg.method = <<"S", ".", "L">>
        /\ tk.invoked
        /\ tk.ret[1].err = <<>>
        /\ tk.resp # <<>>
        /\ tk.resp[1].Result = <<"v">>
        /\ tk.resp[1].Id = DecodeId(tk.msg.id)

\* The ids of the pending-call table that a step takes out of it.
Removed == (DOMAIN pendingResults) \ (DOMAIN pendingResults')

\* The goroutine that runs handleMessage in this step.
Handling(tk) == tk \in Running /\ tk.pc = "handle" /\ CopiesIn(tk, tasks') < CopiesIn(tk, tasks)

\* An error frame of the peer whose id is that of a pending call.
MatchingErrorFrame(w) ==
    /\ w.syn = "witherror"
    /\ w.id.k = "num"
    /\ w.id.h % 2 = 0
    /\ (w.id.h \div 2) \in DOMAIN pendingResults

\* C37: an entry leaves the pending-call table only in the handling of a
\* frame that carries a result and, as its id, the integer the entry is
\* kept under; the handling of a frame without a result leaves the table as
\* it is; and an error frame of the peer with the id of a pending call is
\* answered with an error response, its slot neither written nor closed.
C37_RemovedOnlyByResult ==
    [][\A tk \in Running :
          Handling(tk)
          => /\ \A id \in Removed :
                   tk.msg.result # JAbsent /\ tk.msg.id = NumId(2 * id)
             /\ tk.msg.result = JAbsent => pendingResults' = pendingResults
             /\ MatchingErrorFrame(tk.msg)
                => /\ pendingResults' = pendingResults
                   /\ callers' = callers
                   /\ \E t2 \in BagToSet(tasks') :
                         /\ t2.msg = tk.msg
                         /\ t2.pc = "respond"
                         /\ t2.ch = <<>>
                         /\ t2.resp # <<>>
                         /\ t2.resp[1].Err # <<>>
                         /\ t2.resp[1].Result = <<>>
                         /\ t2.resp[1].Id = DecodeId(tk.msg.id)
      ]_vars

\* C38: a goroutine that is to deliver a result has already taken the entry
\* out of the pending-call table; it stays where it is, with the slot open,
\* until the caller receives the value, and only then closes the slot: it
\* moves on only in a step in which the caller, returned from SendMessage,
\* receives.
C38_RendezvousAfterRemoval ==
    [][\A tk \in Delivering :
          LET c == tk.ch[1] IN
          /\ \A id \in DOMAIN pendingResults : pendingResults[id] # c
          /\ callers[c].ch = "open"
          /\ callers[c].got = <<>>
          /\ CopiesIn(tk, tasks') < CopiesIn(tk, tasks)
             => /\ callers[c].pc = "await"
                /\ Len(callers'[c].got) = 1
                /\ callers'[c].ch = "open"
                /\ [tk EXCEPT !.pc = "close"] \in BagToSet(tasks')
      ]_vars

\* A goroutine holds the result for a caller that is not receiving (it is
\* still in SendMessage, waiting to enqueue its request): the entry is gone
\* from the table and the slot is open and empty.
C38_Witness ==
    \E tk \in Delivering :
        /\ callers[tk.ch[1]].pc = "enqueue"
        /\ callers[tk.ch[1]].id \notin DOMAIN pendingResults
        /\ callers[tk.ch[1]].ch = "open"
        /\ callers[tk.ch[1]].got = <<>>

====
